---------------------------- MODULE Spec2Model ----------------------------
(***************************************************************************)
(* A model of the algorithmic core of nomanssky:                           *)
(*   - walk_graph and its node container (src/nomanssky/_item_graph.py),   *)
(*     walked by the CycleDetector visitor (_formula_cycles.py);           *)
(*   - RefineryPool / RefineryJobQueue (src/nomanssky/_formula.py);        *)
(*   - ProductionChain: append, input, output, profit, estimate_time.      *)
(* Each part has its own specification over its own group of variables;    *)
(* the variables of the other parts stay at their idle values.             *)
(***************************************************************************)
EXTENDS Integers, Sequences, FiniteSets, TLC

(***************************************************************************)
(* Bounds of the model.                                                    *)
(***************************************************************************)
\* number of formulas (graph nodes) of a walked graph
NumNodes == 3
\* largest number of edges of a walked graph
MaxEdges == 3
\* largest number of start nodes handed to walk_graph
MaxStart == 2
\* largest size of a bounded refinery pool
MaxPoolSize == 3
\* largest number of jobs handed to one pool
MaxJobs == 5
\* number of distinct job durations
MaxJobTimes == 2
\* the items that link the stages of a built chain
NumLinkItems == 2
\* the stages of a built chain
MaxStages == 3
\* the largest quantity in a formula of a built chain
MaxQty == 2
\* the stages of a chain whose time is estimated
MaxTimedStages == 2
\* the batches the result of one formula of such a chain fills
MaxBatches == 2
\* the ingredients such a formula takes beside the one that links it
MaxExtra == 2
\* the ticks such a formula takes for one unit
MaxUnitTime == 2
\* the rarities of the items of a BOM
MaxRarity == 2
\* the largest quantity in a formula a BOM is made from, and the largest
\* factor a BOM is multiplied by
MaxBomQty == 3
\* the Ingredients handed over to one IngredientList
MaxInserted == 4
\* the longest portal code that is parsed
MaxCodeLen == 13
\* the stages of a chain whose cached input and profit are read
MaxCachedStages == 2

Nodes == 1..NumNodes
Items == 1..NumNodes

\* "no node": the source of the seeding add(), a start node's parent
None == 0

\* the pool_size of an unlimited pool (Python's None)
NoLimit == -1

\* proc_time of the pool tests, in seconds
TestJobSeconds == 10

\* refiner_output_batch: the output slot of a refinery, for a resource and
\* for any other item
ResourceBatch == 4095
OtherBatch == 10

\* the default craft_time of half a second, in ticks
CraftTime == 1

VARIABLES
    \* ---- walk_graph -------------------------------------------------------
    result_of,        \* formula -> item id of its result (Formula.result.name)
    ingredients_of,   \* formula -> item ids of its ingredients (source_ids())
    start_from,       \* walk_graph's start_from, a sequence of formulas
    walk_order,       \* "DFS" or "BFS"
    pc,               \* "seed": before the seeding add(); "loop"; "done"
    queue,            \* _NodeContainer._queue: entries, oldest first
    colors,           \* _NodeContainer._colors; "NONE" = key not in the dict
    current_stack,    \* CycleDetector._current_stack, bottom first
    detected_cycles,  \* CycleDetector.detected_cycles: item id -> chains
    cycle_count,      \* CycleDetector.cycle_count
    inspected_nodes,  \* CycleDetector.inspected_nodes
    \* history of the walk (what the visitor was told)
    fired,            \* callbacks fired by the last step, in order
    parent,           \* node -> the node being examined when it was discovered
    history,          \* node -> its callbacks and colour assignments, in order
    \* ---- a RefineryPool and its client --------------------------------------
    pool,             \* the RefineryPool object
    job_log,          \* the durations of the jobs added so far, in order
    \* a ProductionChain
    _stages,          \* the list of stages
    _input,           \* the cached input, << >> for None
    _profit,          \* the cached profit, << >> for None
    _time_estimation, \* the cached time estimation, << >> for None
    _production_line, \* the pools of the last estimation, << >> for None
    refinery_limit,   \* the refinery_limit its time is estimated with
    originals,        \* the formulas of its stages, as they were given
    returned,         \* what the last call on the chain returned
    \* BOMs that are compared
    cmp_boms,         \* the BOMs
    lt_result,        \* lt_result[i][j] is cmp_boms[i] < cmp_boms[j]; << >> before
    \* ingredient lists that are compared
    cmp_lists,        \* the lists
    cmp_result,       \* cmp_result[s][i][j] is cmp_lists[i].compare(cmp_lists[j], s)
    \* BOM.__mul__ and BOM.make_bom
    known_boms,       \* the BOMs built so far, by the id of their result
    bom_result,       \* the last call on a BOM and what it gave
    \* filling an IngredientList
    ingredient_list,  \* the IngredientList that is filled
    inserted,         \* every Ingredient handed over to it, in order
    \* ProductionChain.compare
    cmp_chains,       \* the two chains that are compared
    chain_cmp,        \* the compare order and the two results
    \* the cache of ProductionChain.estimate_time
    shared_line,      \* the ProductionLine the caller hands to estimate_time
    last_call,        \* the last operation on the chain
    \* pools of any configured size
    pool_config,      \* how the pool was made and with what size
    pool_error,       \* the exception add_job raised on it
    \* ProductionStage.estimate_time on one stage
    est_formulas,     \* the formulas of the stage that is estimated
    est_limit,        \* the refinery_limit handed to estimate_time
    est_result,       \* the pools after the call and the time it returned
    \* GalacticCoords.from_portal_code
    input_code,       \* the characters of the code that is parsed
    coord_space,      \* the coordinate space asked for
    parsed,           \* what from_portal_code returned
    \* a SilentBomBuilder on a BOM-building walk
    vis_best_boms,    \* SilentBomBuilder.best_boms, by item id
    _bom_stack,       \* SilentBomBuilder._bom_stack, bottom first
    gray_formulas,    \* the formulas examined and not yet finished
    seen_formulas,    \* the ids of the formulas examined so far
    vis_avoid,        \* SilentBomBuilder.avoid
    vis_prefer_craft, \* SilentBomBuilder.prefer_craft
    finish_call       \* the last finish_node call: its formula, best_boms before it, the BOM built

walkVars == << result_of, ingredients_of, start_from, walk_order, pc, queue,
               colors, current_stack, detected_cycles, cycle_count,
               inspected_nodes, fired, parent, history >>

poolVars == << pool, job_log >>

chainVars == << _stages, _input, _profit, _time_estimation, _production_line,
               refinery_limit, originals, returned >>

bomOrderVars == << cmp_boms, lt_result >>

listOrderVars == << cmp_lists, cmp_result >>

bomVars == << known_boms, bom_result >>

fillVars == << ingredient_list, inserted >>

chainCmpVars == << cmp_chains, chain_cmp >>

cacheVars == << shared_line, last_call >>

configVars == << pool_config, pool_error >>

stageVars == << est_formulas, est_limit, est_result >>

portalVars == << input_code, coord_space, parsed >>

builderVars == << vis_best_boms, _bom_stack, gray_formulas, seen_formulas, vis_avoid, vis_prefer_craft, finish_call >>

vars == << walkVars, poolVars, chainVars, bomOrderVars, listOrderVars, bomVars, fillVars, chainCmpVars, cacheVars, configVars, stageVars, portalVars, builderVars >>

(***************************************************************************)
(* Helpers on sequences and sets.                                          *)
(***************************************************************************)
CeilDiv(m, n) == (m + n - 1) \div n

Range(s) == { s[i] : i \in 1..Len(s) }

Reverse(s) == [ i \in 1..Len(s) |-> s[Len(s) + 1 - i] ]

\* every ordering of a finite set: the iteration orders of a Python set
Orderings(S) ==
    { s \in [1..Cardinality(S) -> S] : \A i, j \in 1..Cardinality(S) :
                                            i # j => s[i] # s[j] }

(***************************************************************************)
(* Ingredient and IngredientList.  An Ingredient is [name, qty]; an        *)
(* IngredientList is its _by_id dict: a function from the item ids it      *)
(* holds to their quantities.                                              *)
(***************************************************************************)
Ingredient(name, qty) == [ name |-> name, qty |-> qty ]

\* IngredientList()
IngredientList == << >>

\* the Ingredient objects of a list in the order of its items property
items_of(il) ==
    LET names == DOMAIN il
    IN  [ k \in 1..Cardinality(names) |->
            LET name == CHOOSE x \in names :
                            Cardinality({ y \in names : y < x }) = k - 1
            IN  Ingredient(name, il[name]) ]

\* IngredientList.append
il_append(il, item) ==
    IF item.name \in DOMAIN il
    THEN [ il EXCEPT ![item.name] = @ + item.qty ]
    ELSE [ n \in DOMAIN il \cup { item.name } |->
             IF n = item.name THEN item.qty ELSE il[n] ]

\* IngredientList.append_list
RECURSIVE append_list(_, _)
append_list(il, items) ==
    IF items = << >>
    THEN il
    ELSE append_list(il_append(il, Head(items)), Tail(items))

\* mutant of deduct_list: an item the list does not hold is entered negated
deduct_list_all(il, items) ==
    [ n \in DOMAIN il \cup { items[i].name : i \in 1..Len(items) } |->
        (IF n \in DOMAIN il THEN il[n] ELSE 0)
        - (IF \E i \in 1..Len(items) : items[i].name = n
           THEN (CHOOSE it \in Range(items) : it.name = n).qty ELSE 0) ]

\* IngredientList.deduct_list: only the items the list holds are decremented
RECURSIVE deduct_list(_, _)
deduct_list(il, items) ==
    IF items = << >>
    THEN il
    ELSE LET item == Head(items)
             next == IF item.name \in DOMAIN il
                     THEN [ il EXCEPT ![item.name] = @ - item.qty ]
                     ELSE il
         IN  deduct_list(next, Tail(items))

\* IngredientList.__mul__
il_mul(il, rhs) == [ n \in DOMAIN il |-> il[n] * rhs ]

\* IngredientList.__sub__
il_sub(il, rhs) == deduct_list(il, items_of(rhs))

\* remove_if(lambda i: i.qty == 0)
remove_if_zero(il) == [ n \in { m \in DOMAIN il : il[m] # 0 } |-> il[n] ]

(***************************************************************************)
(* Formula and ProductionStage                                             *)
(***************************************************************************)
Formula(id, type, result, ingredients, time) ==
    [ id |-> id, type |-> type, result |-> result,
      ingredients |-> ingredients, time |-> time ]

\* Formula.__mul__
formula_mul(f, other) ==
    [ f EXCEPT !.result.qty = @ * other,
               !.ingredients = il_mul(@, other),
               !.time = IF f.time # None /\ f.time * other # 0
                        THEN f.time * other ELSE None ]

\* ProductionStage._calc_formulas
RECURSIVE calc_formulas(_, _)
calc_formulas(stage, formulas) ==
    IF formulas = << >>
    THEN stage
    ELSE LET f == Head(formulas)
         IN  calc_formulas(
                 [ stage EXCEPT
                     !.results = il_append(@, f.result),
                     !.ingredients = append_list(@, items_of(f.ingredients)) ],
                 Tail(formulas))

\* ProductionStage(*formulas)
ProductionStage(formulas) ==
    calc_formulas([ formulas |-> formulas, results |-> IngredientList,
                    ingredients |-> IngredientList ], formulas)

\* ProductionStage.__mul__ and ProductionStage.multiply
stage_mul(stage, value) ==
    ProductionStage([ i \in 1..Len(stage.formulas) |->
                        formula_mul(stage.formulas[i], value) ])

(***************************************************************************)
(* ProductionChain                                                         *)
(***************************************************************************)
RECURSIVE gcd(_, _)
gcd(a, b) == IF b = 0 THEN a ELSE gcd(b, a % b)

\* math.lcm on positive integers
lcm(a, b) == (a * b) \div gcd(a, b)

\* mutant of multiply_all: only the last stage is multiplied
multiply_last(stages, k) ==
    [ i \in 1..Len(stages) |->
        IF i = Len(stages) THEN stage_mul(stages[i], k) ELSE stages[i] ]

\* "Multiply all down": for s in self._stages: s.multiply(k)
multiply_all(stages, k) == [ i \in 1..Len(stages) |-> stage_mul(stages[i], k) ]

\* the loop of append() over the results of the last stage, as they were when
\* the loop began
RECURSIVE append_scale(_, _, _)
append_scale(results, stage, stages) ==
    IF results = << >>
    THEN [ stage |-> stage, stages |-> stages ]
    ELSE LET res == Head(results)
         IN  IF res.name \in DOMAIN stage.ingredients
             THEN LET lcm_  == lcm(res.qty, stage.ingredients[res.name])
                      k_out == lcm_ \div stage.ingredients[res.name]
                      k_in  == lcm_ \div res.qty
                  IN  append_scale(
                          Tail(results),
                          IF k_out # 1 THEN stage_mul(stage, k_out) ELSE stage,
                          IF k_in # 1 THEN multiply_all(stages, k_in) ELSE stages)
             ELSE append_scale(Tail(results), stage, stages)

\* ProductionChain.append: the stages after the call
append(stages, stage) ==
    IF stages # << >>
    THEN LET scaled == append_scale(items_of(stages[Len(stages)].results),
                                    stage, stages)
         IN  Append(scaled.stages, scaled.stage)
    ELSE Append(stages, stage)

\* ProductionChain(*stages): the stages are appended one by one
RECURSIVE chain_of(_, _)
chain_of(stages, more) ==
    IF more = << >>
    THEN stages
    ELSE chain_of(append(stages, Head(more)), Tail(more))

\* ProductionChain.output
output(stages) ==
    IF stages # << >> THEN stages[Len(stages)].results ELSE IngredientList

\* the loop of the input property
RECURSIVE input_loop(_, _, _)
input_loop(input, stages, idx) ==
    IF idx > Len(stages)
    THEN input
    ELSE LET added    == append_list(input, items_of(stages[idx].ingredients))
             deducted == deduct_list(added, items_of(stages[idx - 1].results))
         IN  input_loop(deducted, stages, idx + 1)

\* ProductionChain.input, when it is not cached
compute_input(stages) ==
    IF stages = << >>
    THEN IngredientList
    ELSE remove_if_zero(input_loop(il_mul(stages[1].ingredients, 1), stages, 2))

(***************************************************************************)
(* The formula graph.  FormulaVisitor.get_adjacent in direction SOURCE:    *)
(* the formulas that produce one of the node's ingredients.                *)
(***************************************************************************)
Adjacent(res, ing, node) == { f \in Nodes : res[f] \in ing[node] }

get_adjacent(node) == Adjacent(result_of, ingredients_of, node)

EdgeCount(res, ing) ==
    Cardinality({ e \in Nodes \X Nodes : e[2] \in Adjacent(res, ing, e[1]) })

\* item names are arbitrary: formula 1 produces item 1, and a formula produces
\* an item some earlier formula produces or the next unused one
ResultMaps ==
    { r \in [Nodes -> Items] :
        \A n \in Nodes : \/ n = 1 /\ r[n] = 1
                         \/ n > 1 /\ \E m \in 1..(n - 1) : r[n] <= r[m] + 1 }

\* node names are arbitrary too: the first start node is 1, and a start node is
\* one already named or the next unused one
StartSequences ==
    UNION { { s \in [1..k -> Nodes] :
                \A i \in 1..k : \/ i = 1 /\ s[i] = 1
                                \/ i > 1 /\ \E j \in 1..(i - 1) : s[i] <= s[j] + 1 }
            : k \in 1..MaxStart }

(***************************************************************************)
(* LIFO / FIFO (_utils.py): push appends on the right; LIFO pops from the  *)
(* right, FIFO from the left.                                              *)
(***************************************************************************)
push(elements, element) == Append(elements, element)

LIFO_pop(elements) ==
    [ element |-> elements[Len(elements)],
      rest    |-> SubSeq(elements, 1, Len(elements) - 1) ]

FIFO_pop(elements) ==
    [ element |-> Head(elements), rest |-> Tail(elements) ]

\* mutant of pop: the right end is popped whatever the walk order
pop_lifo(order, elements) == LIFO_pop(elements)

\* mutant of pop: the left end is popped whatever the walk order
pop_fifo(order, elements) == FIFO_pop(elements)

\* _WALK_CONTAINERS: the container of the walk order
pop(order, elements) ==
    IF order = "DFS" THEN LIFO_pop(elements) ELSE FIFO_pop(elements)

_Node(item, distance) == [ kind |-> "node", item |-> item, distance |-> distance ]

_NodeFinish(item, distance) ==
    [ kind |-> "finish", item |-> item, distance |-> distance ]

(***************************************************************************)
(* The walk's state as one record, threaded through add() and the visitor  *)
(* callbacks it awaits.                                                    *)
(***************************************************************************)
WalkState ==
    [ queue |-> queue, colors |-> colors, current_stack |-> current_stack,
      detected_cycles |-> detected_cycles, cycle_count |-> cycle_count,
      inspected_nodes |-> inspected_nodes, fired |-> << >>,
      parent |-> parent, history |-> history ]

Event(cb, source, target) == [ cb |-> cb, source |-> source, target |-> target ]

\* _NodeContainer.__getitem__: a key that is not in the dict reads as WHITE
color_of(cols, key) == IF cols[key] = "NONE" THEN "WHITE" ELSE cols[key]

\* _NodeContainer.__setitem__ and the assignment in add()
set_color(st, key, value) ==
    [ st EXCEPT !.colors[key] = value,
                !.history[key] = Append(@, value) ]

\* a callback about a node itself, as the visitor receives it
tell(st, cb, node) ==
    [ st EXCEPT !.fired = Append(@, Event(cb, None, node)),
                !.history[node] = Append(@, cb) ]


(***************************************************************************)
(* The visitor: CycleDetector (a FormulaVisitor, whose own callbacks only  *)
(* log).  Every callback also records itself in the history.               *)
(***************************************************************************)
discover_node(st, node, source) ==
    [ st EXCEPT !.fired = Append(@, Event("discover_node", source, node)),
                !.history[node] = Append(@, "discover_node"),
                !.parent[node] = source ]

examine_node(st, node) ==
    [ tell(st, "examine_node", node) EXCEPT !.current_stack = push(@, node) ]

finish_node(st, node) ==
    [ tell(st, "finish_node", node) EXCEPT
                !.current_stack = LIFO_pop(@).rest,
                !.inspected_nodes = @ + 1 ]

tree_edge(st, source, target) ==
    [ st EXCEPT !.fired = Append(@, Event("tree_edge", source, target)) ]

fwd_or_cross_edge(st, source, target) ==
    [ st EXCEPT !.fired = Append(@, Event("fwd_or_cross_edge", source, target)) ]

\* the loop of backtrack(): pop into trace and backup until the condition holds
RECURSIVE backtrack_pop(_, _, _, _)
backtrack_pop(stack, trace, backup, node) ==
    IF stack = << >>
    THEN [ stack |-> stack, trace |-> trace, backup |-> backup ]
    ELSE LET p == LIFO_pop(stack)
         IN  IF p.element = node
             THEN [ stack  |-> p.rest,
                    trace  |-> Append(trace, p.element),
                    backup |-> push(backup, p.element) ]
             ELSE backtrack_pop(p.rest, Append(trace, p.element),
                                push(backup, p.element), node)

\* mutant of add_all: the backup is pushed back from its left end
add_all_from_left(elements, backup) == elements \o backup

\* _DequeWrapper.add over a LIFO: iterating the source pops it from the right
RECURSIVE add_all(_, _)
add_all(elements, backup) ==
    IF backup = << >>
    THEN elements
    ELSE LET p == LIFO_pop(backup)
         IN  add_all(push(elements, p.element), p.rest)

\* backtrack_to(node): the trace and the restored stack
backtrack_to(stack, node) ==
    LET b        == backtrack_pop(stack, << >>, << >>, node)
        restored == add_all(b.stack, b.backup)
    IN  [ stack |-> restored,
          trace |-> IF b.trace[Len(b.trace)] # node THEN << >> ELSE b.trace ]

\* the Formula object of a node of the walked graph: every quantity is one
formula_of(node) ==
    Formula(node, "REFINING", Ingredient(result_of[node], 1),
            [ i \in ingredients_of[node] |-> 1 ], 1)

\* mutant of from_formula_chain: the formulas are taken in reverse
from_formula_chain_reversed(formulas) ==
    chain_of(<< >>, [ i \in 1..Len(formulas) |->
                        ProductionStage(<< formulas[Len(formulas) + 1 - i] >>) ])

\* ProductionChain.from_formula_chain
from_formula_chain(formulas) ==
    chain_of(<< >>, [ i \in 1..Len(formulas) |->
                        ProductionStage(<< formulas[i] >>) ])

back_edge(st, source, target) ==
    LET logged == [ st EXCEPT !.fired = Append(@, Event("back_edge", source, target)) ]
        b      == backtrack_to(st.current_stack, target)
        kept   == [ logged EXCEPT !.current_stack = b.stack ]
    IN  IF b.trace # << >>
        THEN [ kept EXCEPT !.cycle_count = @ + 1,
                           !.detected_cycles[result_of[target]] =
                               Append(@, from_formula_chain(
                                   [ i \in 1..Len(b.trace) |-> formula_of(b.trace[i]) ])) ]
        ELSE kept

\* mutant of add_item: a Gray target is taken for a finished one and a Black
\* target for one in process
add_item_swapped(st, item, distance, source) ==
    IF st.colors[item] = "NONE"
    THEN LET told == discover_node(st, item, source)
             pushed == [ told EXCEPT !.queue = push(@, _Node(item, distance)) ]
         IN  set_color(pushed, item, "WHITE")
    ELSE IF color_of(st.colors, item) = "WHITE"
    THEN tree_edge(st, source, item)
    ELSE IF color_of(st.colors, item) = "BLACK"
    THEN back_edge(st, source, item)
    ELSE fwd_or_cross_edge(st, source, item)

\* mutant of add_item: a discovered node is not entered in the colour map
add_item_unmarked(st, item, distance, source) ==
    IF st.colors[item] = "NONE"
    THEN LET told == discover_node(st, item, source)
         IN  [ told EXCEPT !.queue = push(@, _Node(item, distance)) ]
    ELSE IF color_of(st.colors, item) = "WHITE"
    THEN tree_edge(st, source, item)
    ELSE IF color_of(st.colors, item) = "GRAY"
    THEN back_edge(st, source, item)
    ELSE fwd_or_cross_edge(st, source, item)

\* mutant of add_item: a White node that is met again is pushed again
add_item_repushed(st, item, distance, source) ==
    IF st.colors[item] = "NONE"
    THEN LET told == discover_node(st, item, source)
             pushed == [ told EXCEPT !.queue = push(@, _Node(item, distance)) ]
         IN  set_color(pushed, item, "WHITE")
    ELSE IF color_of(st.colors, item) = "WHITE"
    THEN [ tree_edge(st, source, item) EXCEPT !.queue = push(@, _Node(item, distance)) ]
    ELSE IF color_of(st.colors, item) = "GRAY"
    THEN back_edge(st, source, item)
    ELSE fwd_or_cross_edge(st, source, item)

(***************************************************************************)
(* _NodeContainer.add                                                      *)
(***************************************************************************)
add_item(st, item, distance, source) ==
    IF st.colors[item] = "NONE"
    THEN LET told == discover_node(st, item, source)
             pushed == [ told EXCEPT !.queue = push(@, _Node(item, distance)) ]
         IN  set_color(pushed, item, "WHITE")
    ELSE IF color_of(st.colors, item) = "WHITE"
    THEN tree_edge(st, source, item)
    ELSE IF color_of(st.colors, item) = "GRAY"
    THEN back_edge(st, source, item)
    ELSE IF color_of(st.colors, item) = "BLACK"
    THEN fwd_or_cross_edge(st, source, item)
    ELSE st

RECURSIVE add_items(_, _, _, _)
add_items(st, items, distance, source) ==
    IF items = << >>
    THEN st
    ELSE add_items(add_item(st, Head(items), distance, source),
                   Tail(items), distance, source)

\* mutant of finish_first: the marker always goes after the items
finish_last(order) == FALSE

\* where the finish marker of the source goes: before the items under DFS
finish_first(order) == order = "DFS"

add(st, order, items, distance, source) ==
    LET marker == _NodeFinish(source, distance - 1)
        before == IF source # None /\ finish_first(order)
                  THEN [ st EXCEPT !.queue = push(@, marker) ]
                  ELSE st
        looped == add_items(before, items, distance, source)
    IN  IF source # None /\ ~finish_first(order)
        THEN [ looped EXCEPT !.queue = push(@, marker) ]
        ELSE looped

(***************************************************************************)
(* walk_graph                                                              *)
(***************************************************************************)
Commit(st) ==
    /\ queue' = st.queue
    /\ colors' = st.colors
    /\ current_stack' = st.current_stack
    /\ detected_cycles' = st.detected_cycles
    /\ cycle_count' = st.cycle_count
    /\ inspected_nodes' = st.inspected_nodes
    /\ fired' = st.fired
    /\ parent' = st.parent
    /\ history' = st.history
    /\ UNCHANGED << result_of, ingredients_of, start_from, walk_order >>

\* to_process.add(start_from, visitor, distance=0)
Seed ==
    /\ pc = "seed"
    /\ Commit(add(WalkState, walk_order, start_from, 0, None))
    /\ pc' = "loop"

\* one turn of the loop on a finish marker
FinishStep ==
    /\ pc = "loop"
    /\ queue # << >>
    /\ LET p == pop(walk_order, queue)
       IN  /\ p.element.kind = "finish"
           /\ LET popped == [ WalkState EXCEPT !.queue = p.rest ]
                  black  == set_color(popped, p.element.item, "BLACK")
              IN  Commit(finish_node(black, p.element.item))
    /\ pc' = pc

\* one turn of the loop on a visit entry
VisitStep ==
    /\ pc = "loop"
    /\ queue # << >>
    /\ LET p == pop(walk_order, queue)
       IN  /\ p.element.kind = "node"
           /\ LET item   == p.element.item
                  popped == [ WalkState EXCEPT !.queue = p.rest ]
              IN  IF color_of(colors, item) # "WHITE"
                  THEN Commit(popped)
                  ELSE LET gray     == set_color(popped, item, "GRAY")
                           examined == examine_node(gray, item)
                       IN  \E adjascent \in Orderings(get_adjacent(item)) :
                              Commit(add(examined, walk_order, adjascent,
                                         p.element.distance + 1, item))
    /\ pc' = pc

\* the container is drained: walk_graph returns
Return ==
    /\ pc = "loop"
    /\ queue = << >>
    /\ pc' = "done"
    /\ fired' = << >>
    /\ UNCHANGED << result_of, ingredients_of, start_from, walk_order, queue,
                    colors, current_stack, detected_cycles, cycle_count,
                    inspected_nodes, parent, history >>

WalkInit ==
    /\ result_of \in ResultMaps
    /\ ingredients_of \in [Nodes -> SUBSET Items]
    /\ EdgeCount(result_of, ingredients_of) <= MaxEdges
    /\ \A n \in Nodes : ingredients_of[n] \subseteq Range(result_of)
    /\ start_from \in StartSequences
    /\ walk_order \in { "DFS", "BFS" }
    /\ pc = "seed"
    /\ queue = << >>
    /\ colors = [ n \in Nodes |-> "NONE" ]
    /\ current_stack = << >>
    /\ detected_cycles = [ i \in Items |-> << >> ]
    /\ cycle_count = 0
    /\ inspected_nodes = 0
    /\ fired = << >>
    /\ parent = [ n \in Nodes |-> None ]
    /\ history = [ n \in Nodes |-> << >> ]

(***************************************************************************)
(* The refinery scheduler: RefineryJob, RefineryJobQueue, RefineryPool.    *)
(* A pool is the record of a RefineryPool object's fields; durations are   *)
(* timedeltas, here whole numbers of time units.                           *)
(***************************************************************************)
RefineryJob(formula, time, batch) ==
    [ formula |-> formula, time |-> time, batch |-> batch ]

\* RefineryJobQueue.__init__
RefineryJobQueue == [ jobs |-> << >>, total_time |-> 0 ]

\* mutant of queue_add_job: the total time is that of the last job
queue_add_job_last_time(q, job) ==
    [ jobs |-> Append(q.jobs, job), total_time |-> job.time ]

\* RefineryJobQueue.add_job
queue_add_job(q, job) ==
    [ jobs |-> Append(q.jobs, job), total_time |-> q.total_time + job.time ]

\* RefineryPool.__init__
RefineryPool(size) ==
    [ pool_size |-> size, queues |-> << >>, max_time |-> 0, max_len |-> 0 ]

unlimited(p) == p.pool_size = NoLimit

actual_pool_size(p) == Len(p.queues)

\* mutant of sorted_by_total_time: the queues are left as they are
unsorted(qs) == qs

\* sorted(self._queues, key=lambda s: s.total_time): a stable sort
sorted_by_total_time(qs) ==
    LET n       == Len(qs)
        rank(i) == Cardinality({ j \in 1..n :
                       \/ qs[j].total_time < qs[i].total_time
                       \/ qs[j].total_time = qs[i].total_time /\ j < i }) + 1
    IN  [ k \in 1..n |-> qs[CHOOSE i \in 1..n : rank(i) = k] ]

\* mutant of get_next_queue: one queue more than pool_size is opened
get_next_queue_one_more(p) ==
    IF unlimited(p) \/ actual_pool_size(p) <= p.pool_size
    THEN [ queues |-> Append(p.queues, RefineryJobQueue),
           index  |-> Len(p.queues) + 1 ]
    ELSE [ queues |-> sorted_by_total_time(p.queues), index |-> 1 ]

\* RefineryPool._get_next_queue: the queues after the call and the index of
\* the queue it returns
get_next_queue(p) ==
    IF unlimited(p)
    THEN [ queues |-> Append(p.queues, RefineryJobQueue),
           index  |-> Len(p.queues) + 1 ]
    ELSE IF actual_pool_size(p) < p.pool_size
    THEN [ queues |-> Append(p.queues, RefineryJobQueue),
           index  |-> Len(p.queues) + 1 ]
    ELSE [ queues |-> sorted_by_total_time(p.queues), index |-> 1 ]

\* RefineryPool.add_job
add_job(p, job) ==
    LET next  == get_next_queue(p)
        q     == queue_add_job(next.queues[next.index], job)
    IN  [ pool_size |-> p.pool_size,
          queues    |-> [ next.queues EXCEPT ![next.index] = q ],
          max_time  |-> IF q.total_time > p.max_time
                        THEN q.total_time ELSE p.max_time,
          max_len   |-> IF Len(q.jobs) > p.max_len
                        THEN Len(q.jobs) ELSE p.max_len ]

\* the durations of the jobs handed to a pool: multiples of the 10 seconds
\* of the tests
JobTimes == { TestJobSeconds * k : k \in 1..MaxJobTimes }

PoolSizes == { NoLimit } \cup 1..MaxPoolSize

PoolInit ==
    /\ pool \in { RefineryPool(size) : size \in PoolSizes }
    /\ job_log = << >>

\* pool.add_job(RefineryJob(None, proc_time, 1))
PoolAddJob ==
    /\ Len(job_log) < MaxJobs
    /\ \E proc_time \in JobTimes :
          /\ pool' = add_job(pool, RefineryJob(None, proc_time, 1))
          /\ job_log' = Append(job_log, proc_time)

(***************************************************************************)
(* Time estimation: Formula.estimate_time, ProductionStage.estimate_time   *)
(* and ProductionChain.estimate_time over a ProductionLine of pools.       *)
(* Times are counted in ticks of half a second, so that the default        *)
(* craft_time is one tick; a refining formula takes a whole number of      *)
(* ticks per unit.                                                         *)
(***************************************************************************)
\* the class of an item in the catalogue that get_items reads
class_of(item) == IF item = 1 THEN "Resource" ELSE "Product"

refiner_output_batch(item_class) ==
    IF item_class = "Resource" THEN ResourceBatch ELSE OtherBatch

\* mutant of refinery_size: two ingredients already need a big refinery
refinery_size_from_two(f) ==
    IF f.type \in { "REPAIR", "CRAFT" }
    THEN "Craft"
    ELSE IF Cardinality(DOMAIN f.ingredients) >= 2 THEN "Big" ELSE "Medium"

\* Formula.refinery_size
refinery_size(f) ==
    IF f.type \in { "REPAIR", "CRAFT" }
    THEN "Craft"
    ELSE IF Cardinality(DOMAIN f.ingredients) > 2 THEN "Big" ELSE "Medium"

\* Formula.estimate_time
formula_estimate_time(f, max_output_batch, craft_time) ==
    IF f.type = "REPAIR"
    THEN [ total_time |-> 0, batch_time |-> 0, batch_count |-> 0,
           refinery_size |-> "Craft" ]
    ELSE IF f.type = "CRAFT"
    THEN [ total_time |-> f.result.qty * craft_time,
           batch_time |-> f.result.qty * craft_time,
           batch_count |-> 1, refinery_size |-> "Craft" ]
    ELSE LET batch_time == (max_output_batch * f.time) \div f.result.qty
         IN  [ total_time  |-> f.time,
               batch_time  |-> IF f.result.qty > max_output_batch /\ batch_time # 0
                               THEN batch_time ELSE f.time,
               batch_count |-> CeilDiv(f.result.qty, max_output_batch),
               refinery_size |-> refinery_size(f) ]

\* RefineryPool.make_pool
make_pool(size, limit) ==
    RefineryPool(IF size \in DOMAIN limit /\ limit[size] # 0
                 THEN limit[size] ELSE NoLimit)

\* RefineryPool.make_pools, which is all that ProductionLine.__init__ does
ProductionLine(limit) ==
    [ Medium |-> make_pool("Medium", limit),
      Big    |-> make_pool("Big", limit),
      Craft  |-> RefineryPool(1) ]

\* ProductionLine.max_time
line_max_time(pools) ==
    CHOOSE t \in { pools[s].max_time : s \in DOMAIN pools } :
        \A s \in DOMAIN pools : pools[s].max_time <= t

\* for b in range(0, batch_count): pool.add_job(job)
RECURSIVE add_jobs(_, _, _)
add_jobs(p, job, count) ==
    IF count <= 0 THEN p ELSE add_jobs(add_job(p, job), job, count - 1)

\* the loop of ProductionStage.estimate_time over the formulas of the stage
RECURSIVE stage_jobs(_, _, _)
stage_jobs(formulas, craft_time, pools) ==
    IF formulas = << >>
    THEN pools
    ELSE LET f          == Head(formulas)
             batch_size == refiner_output_batch(class_of(f.result.name))
             est        == formula_estimate_time(f, batch_size, craft_time)
             size       == est.refinery_size
             filled     ==
                 IF size # "Craft"
                 THEN add_jobs(pools[size],
                               RefineryJob(f, est.batch_time, batch_size),
                               est.batch_count)
                 ELSE add_job(pools[size],
                              RefineryJob(f, est.total_time, f.result.qty))
         IN  stage_jobs(Tail(formulas), craft_time,
                        [ pools EXCEPT ![size] = filled ])

\* ProductionStage.estimate_time with the pools it is given: the pools after
\* the call and the time it returns
stage_estimate_time(stage, craft_time, pools) ==
    LET filled == stage_jobs(stage.formulas, craft_time, pools)
    IN  [ pools |-> filled, time |-> line_max_time(filled) ]

\* the loop of ProductionChain.estimate_time over the stages
RECURSIVE chain_estimate(_, _, _, _, _)
chain_estimate(stages, craft_time, limit, pools, estimation) ==
    IF stages = << >>
    THEN [ pools |-> pools, estimation |-> estimation ]
    ELSE LET est == stage_estimate_time(Head(stages), craft_time, pools)
         IN  chain_estimate(Tail(stages), craft_time, limit, est.pools,
                            estimation + est.time)

\* an optional value: << >> is None
Some(v) == << v >>

\* the truth value Python gives an optional timedelta
truthy(time) == time # << >> /\ time[1] # 0

(***************************************************************************)
(* The chain as an object: its operations as actions.                      *)
(***************************************************************************)
\* the item a stage at position p of a built chain produces, and the item
\* it takes from the stage before it
result_item(p) == ((p - 1) % NumLinkItems) + 1

link_item(p) == ((p + NumLinkItems - 2) % NumLinkItems) + 1

RawItem == NumLinkItems + 1

\* the formulas a stage at position p is made of when a chain is built up
LinkFormulas(p) ==
    { Formula(p, "CRAFT", Ingredient(result_item(p), qty),
              [ n \in { link_item(p) : x \in 1..link } \cup
                      { RawItem : x \in 1..raw } |->
                  IF n = RawItem THEN raw ELSE link ],
              None) :
        << qty, link, raw >> \in
            { t \in (1..MaxQty) \X (0..MaxQty) \X (0..1) : t[2] + t[3] > 0 } }

ChainInit ==
    /\ _stages = << >>
    /\ _input = << >>
    /\ _profit = << >>
    /\ _time_estimation = << >>
    /\ _production_line = << >>
    /\ originals = << >>
    /\ refinery_limit = [ Medium |-> 3, Big |-> 2 ]
    /\ returned = << >>

\* chain.append(ProductionStage(f))
ChainAppend ==
    /\ Len(_stages) < MaxStages
    /\ \E f \in LinkFormulas(Len(_stages) + 1) :
          /\ _stages' = append(_stages, ProductionStage(<< f >>))
          /\ originals' = Append(originals, f)
    /\ _input' = << >>
    /\ _profit' = << >>
    /\ _time_estimation' = << >>
    /\ returned' = << >>
    /\ UNCHANGED << _production_line, refinery_limit >>

\* chain.input
ReadInput ==
    /\ IF _stages = << >>
       THEN /\ returned' = Some(IngredientList)
            /\ UNCHANGED _input
       ELSE /\ _input' = IF _input = << >> THEN Some(compute_input(_stages))
                         ELSE _input
            /\ returned' = _input'
    /\ UNCHANGED << _stages, _profit, _time_estimation, _production_line,
                    originals, refinery_limit >>

\* chain.profit
ReadProfit ==
    /\ IF _profit = << >>
       THEN LET input == IF _stages = << >> THEN IngredientList
                         ELSE IF _input = << >> THEN compute_input(_stages)
                         ELSE _input[1]
            IN  /\ _input' = IF _stages = << >> THEN _input ELSE Some(input)
                /\ _profit' = Some(il_sub(output(_stages), input))
       ELSE UNCHANGED << _input, _profit >>
    /\ returned' = _profit'
    /\ UNCHANGED << _stages, _time_estimation, _production_line, originals,
                    refinery_limit >>

(***************************************************************************)
(* Chains whose time is estimated.                                         *)
(***************************************************************************)
\* result quantities of one batch and more for an item that is no resource
BatchQuantities == { 1 + OtherBatch * k : k \in 0..(MaxBatches - 1) }

\* the formulas of a chain of n stages that needs no scaling: each stage
\* takes what the stage before it makes
TimedChains(n) ==
    LET Choice == [ type : { "CRAFT", "REFINING" }, qty : BatchQuantities,
                    extra : 0..MaxExtra, unit : 1..MaxUnitTime ]
        Usable(c) == c.type = "CRAFT" => c.unit = 1
        formula(cs, p) ==
            Formula(p, cs[p].type, Ingredient(result_item(p), cs[p].qty),
                    [ i \in { link_item(p) } \cup
                            { RawItem + x : x \in 0..(cs[p].extra - 1) } |->
                        IF i = link_item(p) /\ p > 1 THEN cs[p - 1].qty ELSE 1 ],
                    IF cs[p].type = "CRAFT" THEN None
                    ELSE cs[p].qty * cs[p].unit)
    IN  { [ p \in 1..n |-> formula(cs, p) ] :
            cs \in [ 1..n -> { c \in Choice : Usable(c) } ] }

RefineryLimits == { [ Medium |-> 3, Big |-> 2 ], [ Medium |-> 1, Big |-> 1 ] }

EstimateInit ==
    /\ \E n \in 0..MaxTimedStages : \E formulas \in TimedChains(n) :
          /\ _stages = from_formula_chain(formulas)
          /\ originals = formulas
    /\ refinery_limit \in RefineryLimits
    /\ _input = << >>
    /\ _profit = << >>
    /\ _time_estimation = << >>
    /\ _production_line = << >>
    /\ returned = << >>

\* chain.estimate_time(get_items, refinery_limit=refinery_limit,
\*                     reset_estimation=reset_estimation)
EstimateTime ==
    /\ \E reset_estimation \in BOOLEAN :
          LET time == IF reset_estimation THEN << >> ELSE _time_estimation
              line == IF reset_estimation THEN << >> ELSE _production_line
          IN  IF truthy(time)
              THEN /\ _time_estimation' = time
                   /\ _production_line' = line
                   /\ returned' = time
              ELSE LET est == chain_estimate(_stages, CraftTime, refinery_limit,
                                             ProductionLine(refinery_limit), 0)
                   IN  /\ _time_estimation' = Some(est.estimation)
                       /\ _production_line' = Some(est.pools)
                       /\ returned' = Some(est.estimation)
    /\ UNCHANGED << _stages, _input, _profit, originals, refinery_limit >>

(***************************************************************************)
(* BOM: the bill of materials of an item.  An Item is what the catalogue   *)
(* tells of it: id, value and rarity, the rarity as its place in the       *)
(* Rarity enum.  Values are whole numbers.                                 *)
(***************************************************************************)
Item(id, value, rarity) == [ id |-> id, value |-> value, rarity |-> rarity ]

_FormulaNode(formula, dependencies) ==
    [ formula |-> formula, dependencies |-> dependencies ]

\* an exception that leaves a call
Raised(error) == [ raised |-> error ]

IsRaised(value) == "raised" \in DOMAIN value

\* sorted(ingredients, key=lambda i: i.name): a stable sort
sorted_by_name(ingredients) ==
    LET n       == Len(ingredients)
        rank(i) == Cardinality({ j \in 1..n :
                       \/ ingredients[j].name < ingredients[i].name
                       \/ ingredients[j].name = ingredients[i].name /\ j < i }) + 1
    IN  [ k \in 1..n |-> ingredients[CHOOSE i \in 1..n : rank(i) = k] ]

\* sum([components[i.name].value * i.qty for i in ingredients])
RECURSIVE total_of(_, _)
total_of(ingredients, components) ==
    IF ingredients = << >>
    THEN 0
    ELSE components[Head(ingredients).name].value * Head(ingredients).qty
         + total_of(Tail(ingredients), components)

\* max([c.rarity for c in components.values()])
max_rarity_of(components) ==
    CHOOSE r \in { components[k].rarity : k \in DOMAIN components } :
        \A k \in DOMAIN components : components[k].rarity <= r

\* BOM.__init__: the new BOM, or the exception it raises; per_item is the
\* fraction total / result_qty
BOM(result, ingredients, components, result_qty, formulas, avoid, prefer_craft) ==
    IF DOMAIN components = { }
    THEN Raised("ValueError")
    ELSE IF \E i \in 1..Len(ingredients) :
                ingredients[i].name \notin DOMAIN components
    THEN Raised("KeyError")
    ELSE IF result_qty = 0
    THEN Raised("ZeroDivisionError")
    ELSE [ result       |-> result,
           ingredients  |-> sorted_by_name(ingredients),
           components   |-> components,
           max_rarity   |-> max_rarity_of(components),
           output_qty   |-> result_qty,
           total        |-> total_of(ingredients, components),
           per_item     |-> << total_of(ingredients, components), result_qty >>,
           formula_tree |-> formulas,
           avoid        |-> avoid,
           prefer_craft |-> prefer_craft ]

\* BOM.process_type
process_type(bom) == bom.formula_tree.formula.type

\* BOM.__lt__
bom_lt(self, other) ==
    IF self.avoid = other.avoid
    THEN IF process_type(self) = process_type(other)
         THEN IF self.max_rarity = other.max_rarity
              THEN self.total < other.total
              ELSE self.max_rarity < other.max_rarity
         ELSE IF process_type(self) = "CRAFT"
         THEN self.prefer_craft
         ELSE ~self.prefer_craft
    ELSE ~self.avoid

FormulaTypes == { "CRAFT", "REFINING", "REPAIR", "COOK" }

\* the BOMs of item 1 made straight from one formula that takes one raw item
LeafBoms(prefer_craft) ==
    { BOM(1, << Ingredient(RawItem, qty) >>,
          [ k \in { RawItem } |-> Item(RawItem, 1, rarity) ], 1,
          _FormulaNode(Formula(1, type, Ingredient(1, 1),
                               [ k \in { RawItem } |-> qty ], None), << >>),
          avoid, prefer_craft) :
        << qty, rarity, type, avoid >> \in
            (1..MaxQty) \X (1..MaxRarity) \X FormulaTypes \X BOOLEAN }

\* three BOMs with one prefer_craft flag, to be compared with each other
BomOrderInit ==
    /\ \E prefer_craft \in BOOLEAN :
          cmp_boms \in [ 1..3 -> LeafBoms(prefer_craft) ]
    /\ lt_result = << >>

\* cmp_boms[i] < cmp_boms[j], for every i and j
BomCompare ==
    /\ lt_result' = [ i \in 1..3 |-> [ j \in 1..3 |->
                        bom_lt(cmp_boms[i], cmp_boms[j]) ] ]
    /\ UNCHANGED cmp_boms

BomOrderIdle ==
    /\ cmp_boms = << >>
    /\ lt_result = << >>

(***************************************************************************)
(* IngredientList.compare                                                  *)
(***************************************************************************)
\* Ingredient.__lt__
ingredient_lt(self, rhs) ==
    IF self.name < rhs.name
    THEN TRUE
    ELSE IF self.name > rhs.name
    THEN FALSE
    ELSE self.qty < rhs.qty

\* mutant of invert: More is left as it is
invert_less_only(res) == IF res = "Less" THEN "More" ELSE res

\* CompareResult.__invert__
invert(res) ==
    IF res = "Less" THEN "More" ELSE IF res = "More" THEN "Less" ELSE res

\* the end of compare(): the result by length under the strategy
by_length(res, strategy) == IF strategy = "LongerLess" THEN invert(res) ELSE res

\* the loop of compare() over the common part of the two lists; lhs > rhs is
\* evaluated as rhs < lhs
RECURSIVE compare_items(_, _, _, _)
compare_items(lhs, rhs, idx, min_len) ==
    IF idx > min_len
    THEN "Equal"
    ELSE IF ingredient_lt(lhs[idx], rhs[idx])
    THEN "Less"
    ELSE IF ingredient_lt(rhs[idx], lhs[idx])
    THEN "More"
    ELSE compare_items(lhs, rhs, idx + 1, min_len)

\* IngredientList.compare
compare(self, rhs, strategy) ==
    LET lhs_items == items_of(self)
        rhs_items == items_of(rhs)
        min_len   == IF Len(lhs_items) < Len(rhs_items)
                     THEN Len(lhs_items) ELSE Len(rhs_items)
        common    == compare_items(lhs_items, rhs_items, 1, min_len)
        res       == IF Len(lhs_items) < Len(rhs_items) THEN "Less"
                     ELSE IF Len(lhs_items) > Len(rhs_items) THEN "More"
                     ELSE "Equal"
    IN  IF common # "Equal" THEN common ELSE by_length(res, strategy)

Strategies == { "LongerLess", "LongerMore" }

\* the ingredient lists over the link items
SampleLists ==
    UNION { [ names -> 1..MaxQty ] : names \in SUBSET (1..NumLinkItems) }

\* three lists, to be compared with each other
ListOrderInit ==
    /\ cmp_lists \in [ 1..3 -> SampleLists ]
    /\ cmp_result = << >>

\* cmp_lists[i].compare(cmp_lists[j], strategy), for every i, j and strategy
ListCompare ==
    /\ cmp_result' = [ strategy \in Strategies |->
                         [ i \in 1..3 |-> [ j \in 1..3 |->
                             compare(cmp_lists[i], cmp_lists[j], strategy) ] ] ]
    /\ UNCHANGED cmp_lists

ListOrderIdle ==
    /\ cmp_lists = << >>
    /\ cmp_result = << >>

(***************************************************************************)
(* Building BOMs: BOM.__mul__, BOM.make_bom and BOM.combine_boms.  A dict  *)
(* of BOMs is a function from item ids; _select_bom gives << >> for None.  *)
(***************************************************************************)
\* BOM.name: the id of the result
bom_name(bom) == bom.result

\* BOM.__getitem__
bom_getitem(bom, item_id) ==
    IF item_id \notin DOMAIN bom.components
    THEN 0
    ELSE LET hits == { i \in 1..Len(bom.ingredients) :
                         bom.ingredients[i].name = item_id }
         IN  IF hits = { }
             THEN 0
             ELSE bom.ingredients[CHOOSE i \in hits : \A j \in hits : i <= j].qty

\* mutant of bom_mul: the output quantity is not multiplied
bom_mul_ingredients_only(self, other) ==
    BOM(self.result,
        [ i \in 1..Len(self.ingredients) |->
            Ingredient(self.ingredients[i].name, self.ingredients[i].qty * other) ],
        self.components, self.output_qty, self.formula_tree,
        self.avoid, self.prefer_craft)

\* BOM.__mul__ by an int: a BOM made anew from multiplied copies of the
\* ingredients
bom_mul(self, other) ==
    BOM(self.result,
        [ i \in 1..Len(self.ingredients) |->
            Ingredient(self.ingredients[i].name, self.ingredients[i].qty * other) ],
        self.components, self.output_qty * other, self.formula_tree,
        self.avoid, self.prefer_craft)

\* d[key] = value on a dict
dict_set(d, key, value) ==
    [ k \in DOMAIN d \cup { key } |-> IF k = key THEN value ELSE d[k] ]

\* the values of a dict, by key
dict_values(d) ==
    LET keys == DOMAIN d
    IN  [ n \in 1..Cardinality(keys) |->
            d[CHOOSE x \in keys : Cardinality({ y \in keys : y < x }) = n - 1] ]

\* _select_bom of combine_boms
_select_bom(name, local_boms, global_boms) ==
    IF name \in DOMAIN local_boms /\ name \in DOMAIN global_boms
    THEN IF bom_lt(local_boms[name], global_boms[name])
         THEN << local_boms[name] >>
         ELSE << global_boms[name] >>
    ELSE IF name \in DOMAIN local_boms
    THEN << local_boms[name] >>
    ELSE IF name \in DOMAIN global_boms
    THEN << global_boms[name] >>
    ELSE << >>

\* "Select best bom": the first BOM of every component's sorted list; the
\* BOMs handed over by make_bom are one for a component, and a list of one
\* sorts to itself
RECURSIVE best_of(_, _)
best_of(boms, best_boms) ==
    IF boms = << >>
    THEN best_boms
    ELSE best_of(Tail(boms),
                 IF bom_name(Head(boms)) \in DOMAIN best_boms
                 THEN best_boms
                 ELSE dict_set(best_boms, bom_name(Head(boms)), Head(boms)))

\* "Calculate coefficients of output": the loop over the ingredients
RECURSIVE output_loop(_, _, _, _)
output_loop(ings, best_boms, global_boms, output_lcm) ==
    IF ings = << >>
    THEN [ best_boms |-> best_boms, output_lcm |-> output_lcm ]
    ELSE LET ing == Head(ings)
             bom == _select_bom(ing.name, best_boms, global_boms)
         IN  IF bom = << >>
             THEN output_loop(Tail(ings), best_boms, global_boms, output_lcm)
             ELSE LET ing_lcm == lcm(ing.qty, bom[1].output_qty)
                  IN  output_loop(Tail(ings),
                          IF ing.name \notin DOMAIN best_boms
                          THEN dict_set(best_boms, ing.name, bom[1])
                          ELSE best_boms,
                          global_boms,
                          lcm(ing_lcm \div ing.qty, output_lcm))

\* new_output after "if new_output != output_lcm"
new_output_of(result_qty, output_lcm) ==
    IF result_qty # output_lcm THEN output_lcm \div result_qty ELSE result_qty

\* "Apply coefficient to BOMs": the loop over the ingredients; the BOMs it
\* leaves, or the exception a multiplication raised
RECURSIVE rescale_loop(_, _, _, _)
rescale_loop(ings, best_boms, global_boms, k_output) ==
    IF ings = << >>
    THEN [ best_boms |-> best_boms ]
    ELSE LET ing == Head(ings)
             bom == _select_bom(ing.name, best_boms, global_boms)
         IN  IF bom = << >>
             THEN rescale_loop(Tail(ings), best_boms, global_boms, k_output)
             ELSE LET ing_lcm == lcm(ing.qty * k_output, bom[1].output_qty)
                      scaled  == bom_mul(bom[1], ing_lcm \div bom[1].output_qty)
                  IN  IF ing_lcm = bom[1].output_qty
                      THEN rescale_loop(Tail(ings), best_boms, global_boms, k_output)
                      ELSE IF IsRaised(scaled)
                      THEN scaled
                      ELSE rescale_loop(Tail(ings),
                               dict_set(best_boms, ing.name, scaled),
                               global_boms, k_output)

RECURSIVE sum_getitem(_, _)
sum_getitem(boms, key) ==
    IF boms = << >>
    THEN 0
    ELSE bom_getitem(Head(boms), key) + sum_getitem(Tail(boms), key)

\* "Merge boms": the BOM made of the rescaled BOMs
merge_boms(result, formula, best_boms, new_output, avoid, prefer_craft) ==
    LET boms           == dict_values(best_boms)
        keys           == UNION { DOMAIN boms[n].components : n \in 1..Len(boms) }
                              \ DOMAIN best_boms
        last_with(k)   == CHOOSE n \in 1..Len(boms) :
                              /\ k \in DOMAIN boms[n].components
                              /\ \A m \in 1..Len(boms) :
                                    k \in DOMAIN boms[m].components => m <= n
        new_components == [ k \in keys |-> boms[last_with(k)].components[k] ]
        new_counts     == [ k \in keys |-> sum_getitem(boms, k) ]
        dependencies   == SelectSeq([ n \in 1..Len(boms) |-> boms[n].formula_tree ],
                                    LAMBDA t : t.formula # formula)
    IN  BOM(result, items_of(new_counts), new_components, new_output,
            _FormulaNode(formula, dependencies),
            keys \cap avoid # { }, prefer_craft)

\* the local variables of combine_boms when it returns or raises
combine_locals(formula, boms, global_boms) ==
    LET ings       == items_of(formula.ingredients)
        out        == output_loop(ings, best_of(boms, << >>), global_boms,
                                  formula.result.qty)
        new_output == new_output_of(formula.result.qty, out.output_lcm)
        k_output   == new_output \div formula.result.qty
    IN  [ new_output |-> new_output,
          k_output   |-> k_output,
          rescaled   |-> rescale_loop(ings, out.best_boms, global_boms, k_output) ]

\* BOM.combine_boms: the new BOM, or the exception raised
combine_boms(result, formula, boms, global_boms, avoid, prefer_craft) ==
    LET locals == combine_locals(formula, boms, global_boms)
    IN  IF IsRaised(locals.rescaled)
        THEN locals.rescaled
        ELSE merge_boms(result, formula, locals.rescaled.best_boms,
                        locals.new_output, avoid, prefer_craft)

\* wiki.get_item: the catalogue's value and rarity of an item
wiki_get_item(id) == Item(id, id, IF id = RawItem THEN 1 ELSE MaxRarity)

\* the BOMs make_bom finds for the ingredients in global_boms
ingredient_boms(formula, global_boms) ==
    LET ings == SelectSeq(items_of(formula.ingredients),
                          LAMBDA i : i.name \in DOMAIN global_boms)
    IN  [ n \in 1..Len(ings) |-> global_boms[ings[n].name] ]

\* BOM.make_bom
make_bom(result, formula, global_boms, avoid, prefer_craft) ==
    IF ingredient_boms(formula, global_boms) # << >>
    THEN combine_boms(result, formula, ingredient_boms(formula, global_boms),
                      global_boms, avoid, prefer_craft)
    ELSE LET components == [ k \in DOMAIN formula.ingredients |-> wiki_get_item(k) ]
         IN  BOM(result, items_of(formula.ingredients), components,
                 formula.result.qty, _FormulaNode(formula, << >>),
                 DOMAIN components \cap avoid # { }, prefer_craft)

\* the formulas that make an item out of some of the given items
BomFormulas(result, sources) ==
    { Formula(result, type, Ingredient(result, result_qty), ingredients, None) :
        << type, result_qty, ingredients >> \in
            { "CRAFT", "REFINING" } \X (1..MaxBomQty) \X
            UNION { [ names -> 1..MaxBomQty ] : names \in SUBSET sources \ { { } } } }

AvoidSets == { { }, { RawItem } }

\* global_boms holds no BOM, or the BOM of item 2 made of raw items
BomInit ==
    /\ known_boms \in { << >> } \cup
          { [ k \in { 2 } |-> make_bom(2, formula, << >>, avoid, prefer_craft) ] :
              << formula, avoid, prefer_craft >> \in
                  BomFormulas(2, { RawItem, RawItem + 1 }) \X AvoidSets \X BOOLEAN }
    /\ bom_result = << >>

\* bom * k for a BOM of known_boms; a behaviour makes one call, the calls
\* leave known_boms as it is
BomMul ==
    /\ bom_result = << >>
    /\ \E name \in DOMAIN known_boms, k \in 1..MaxBomQty :
          bom_result' = [ op      |-> "mul",
                          name    |-> name,
                          self    |-> known_boms[name],
                          k       |-> k,
                          product |-> bom_mul(known_boms[name], k) ]
    /\ UNCHANGED known_boms

\* BOM.make_bom for item 1 with a formula over item 2 and the raw item
MakeBom ==
    /\ bom_result = << >>
    /\ \E formula \in BomFormulas(1, { 2, RawItem }),
          avoid \in AvoidSets, prefer_craft \in BOOLEAN :
          bom_result' =
              [ op       |-> "make",
                formula  |-> formula,
                combined |-> ingredient_boms(formula, known_boms) # << >>,
                locals   |-> IF ingredient_boms(formula, known_boms) # << >>
                             THEN << combine_locals(formula,
                                         ingredient_boms(formula, known_boms),
                                         known_boms) >>
                             ELSE << >>,
                bom      |-> make_bom(1, formula, known_boms, avoid, prefer_craft) ]
    /\ UNCHANGED known_boms

BomIdle ==
    /\ known_boms = << >>
    /\ bom_result = << >>

(***************************************************************************)
(* Filling an IngredientList: the constructor with items, append and       *)
(* append_list.  inserted is the record of every Ingredient handed over.   *)
(***************************************************************************)
\* IngredientList.__setitem__: the entry is a copy of the value
il_setitem(il, key, value) ==
    [ n \in DOMAIN il \cup { key } |-> IF n = key THEN value.qty * 1 ELSE il[n] ]

\* IngredientList(*items): every item is set under its name
RECURSIVE il_init(_, _)
il_init(il, items) ==
    IF items = << >>
    THEN il
    ELSE il_init(il_setitem(il, Head(items).name, Ingredient(Head(items).name,
                                                           Head(items).qty * 1)),
                 Tail(items))

SampleIngredients == { Ingredient(name, qty) : name \in 1..NumLinkItems, qty \in 1..MaxQty }

SeqsUpTo(S, n) == UNION { [ 1..k -> S ] : k \in 0..n }

\* a list constructed from up to two items
FillInit ==
    \E items \in SeqsUpTo(SampleIngredients, 2) :
        /\ ingredient_list = il_init(IngredientList, items)
        /\ inserted = items

\* IngredientList.append
FillAppend ==
    /\ Len(inserted) < MaxInserted
    /\ \E item \in SampleIngredients :
          /\ ingredient_list' = il_append(ingredient_list, item)
          /\ inserted' = Append(inserted, item)

\* IngredientList.append_list with two items
FillAppendList ==
    /\ Len(inserted) + 2 <= MaxInserted
    /\ \E items \in [ 1..2 -> SampleIngredients ] :
          /\ ingredient_list' = append_list(ingredient_list, items)
          /\ inserted' = inserted \o items

FillIdle ==
    /\ ingredient_list = << >>
    /\ inserted = << >>

(***************************************************************************)
(* ProductionChain.compare.  A compared chain is given by what compare     *)
(* reads of it: its length, output, input and the two estimates, None      *)
(* being << >>.  A TypeError that leaves the call is the result            *)
(* "TypeError".                                                            *)
(***************************************************************************)
ProductionValue(cost, value) == [ costs |-> cost, value |-> value ]

pv_profit(self) == self.value - self.costs

\* ProductionValue.__lt__; rhs is << >> for None
pv_lt(self, rhs) ==
    IF rhs = << >>
    THEN FALSE
    ELSE IF pv_profit(self) < pv_profit(rhs[1])
    THEN TRUE
    ELSE IF pv_profit(self) > pv_profit(rhs[1])
    THEN FALSE
    ELSE self.value < rhs[1].value

_cmp_length(self, rhs) ==
    IF self.len < rhs.len
    THEN "More"
    ELSE IF self.len > rhs.len
    THEN "Less"
    ELSE "Equal"

\* lhs_value > rhs_value: ProductionValue has no __gt__, so Python asks
\* rhs_value for the reflected __lt__, and None has none
_cmp_value(self, rhs) ==
    LET lhs_value == self._value_estimation
        rhs_value == rhs._value_estimation
    IN  IF lhs_value # << >>
        THEN IF pv_lt(lhs_value[1], rhs_value)
             THEN "Less"
             ELSE IF rhs_value = << >>
             THEN "TypeError"
             ELSE IF pv_lt(rhs_value[1], lhs_value)
             THEN "More"
             ELSE "Equal"
        ELSE IF rhs_value # << >>
        THEN "More"
        ELSE "Equal"

_cmp_time(self, rhs) ==
    LET lhs_time == self._time_estimation
        rhs_time == rhs._time_estimation
    IN  IF lhs_time # << >> /\ rhs_time # << >>
        THEN IF lhs_time[1] < rhs_time[1]
             THEN "Less"
             ELSE IF lhs_time[1] > rhs_time[1]
             THEN "More"
             ELSE "Equal"
        ELSE IF lhs_time # << >>
        THEN "Less"
        ELSE IF rhs_time # << >>
        THEN "More"
        ELSE "Equal"

_cmp_output(self, rhs) == compare(self.output, rhs.output, "LongerMore")

_cmp_input(self, rhs) == compare(self.input, rhs.input, "LongerLess")

comparisons(ct, self, rhs) ==
    CASE ct = "Length" -> _cmp_length(self, rhs)
      [] ct = "Value"  -> _cmp_value(self, rhs)
      [] ct = "Output" -> _cmp_output(self, rhs)
      [] ct = "Input"  -> _cmp_input(self, rhs)
      [] ct = "Time"   -> _cmp_time(self, rhs)

\* the loop over compare_order, which holds at least one key
RECURSIVE compare_loop(_, _, _)
compare_loop(self, rhs, compare_order) ==
    LET cmp == comparisons(Head(compare_order), self, rhs)
    IN  IF cmp # "Equal" \/ Len(compare_order) = 1
        THEN cmp
        ELSE compare_loop(self, rhs, Tail(compare_order))

\* ProductionChain.compare
chain_compare(self, rhs, compare_order) ==
    IF self.len = 0
    THEN IF rhs.len = 0 THEN "Equal" ELSE "Less"
    ELSE IF rhs.len = 0
    THEN "More"
    ELSE compare_loop(self, rhs, compare_order)

\* the chains of n stages that make qty of item 1 out of qty of the raw item
\* each, with or without estimates
ComparedChains ==
    { [ len               |-> n,
        output            |-> IF n = 0 THEN IngredientList
                              ELSE il_append(IngredientList, Ingredient(1, qty)),
        input             |-> IF n = 0 THEN IngredientList
                              ELSE il_append(IngredientList, Ingredient(RawItem, qty)),
        _value_estimation |-> value,
        _time_estimation  |-> time ] :
        << n, qty, value, time >> \in
            (0..MaxTimedStages) \X (1..MaxQty)
            \X ({ << >> } \cup { << ProductionValue(cost, v) >> :
                                    cost \in 0..1, v \in 1..MaxQty })
            \X ({ << >> } \cup { << t >> : t \in 1..MaxUnitTime }) }

CompareOrders ==
    { << "Length" >>, << "Value" >>, << "Output" >>, << "Input" >>, << "Time" >>,
      << "Length", "Output", "Input" >>, << "Time", "Value" >> }

ChainCmpInit ==
    /\ cmp_chains \in [ 1..2 -> ComparedChains ]
    /\ chain_cmp = << >>

\* cmp_chains[1].compare(cmp_chains[2], compare_order) and the other way round
ChainCompare ==
    /\ chain_cmp = << >>
    /\ \E compare_order \in CompareOrders :
          chain_cmp' = [ compare_order |-> compare_order,
                         result   |-> chain_compare(cmp_chains[1], cmp_chains[2],
                                                    compare_order),
                         reversed |-> chain_compare(cmp_chains[2], cmp_chains[1],
                                                    compare_order) ]
    /\ UNCHANGED cmp_chains

ChainCmpIdle ==
    /\ cmp_chains = << >>
    /\ chain_cmp = << >>

(***************************************************************************)
(* The cache of estimate_time.  The caller may hand estimate_time a        *)
(* ProductionLine of its own, shared_line, which the chain then keeps as   *)
(* its _production_line; last_call tells the last operation on the chain.  *)
(***************************************************************************)
\* the loop of append_front over the results of the new stage
RECURSIVE append_front_scale(_, _, _)
append_front_scale(results, stage, stages) ==
    IF results = << >>
    THEN [ stage |-> stage, stages |-> stages ]
    ELSE LET res         == Head(results)
             first_stage == stages[1]
         IN  IF res.name \in DOMAIN first_stage.ingredients
             THEN LET lcm_  == lcm(res.qty, first_stage.ingredients[res.name])
                      k_out == lcm_ \div first_stage.ingredients[res.name]
                      k_in  == lcm_ \div res.qty
                  IN  append_front_scale(
                          Tail(results),
                          IF k_in # 1 THEN stage_mul(stage, k_in) ELSE stage,
                          IF k_out # 1 THEN multiply_all(stages, k_out) ELSE stages)
             ELSE append_front_scale(Tail(results), stage, stages)

\* ProductionChain.append_front: the stages after the call
append_front(stages, stage) ==
    IF stages # << >>
    THEN LET scaled == append_front_scale(items_of(stage.results), stage, stages)
         IN  << scaled.stage >> \o scaled.stages
    ELSE << stage >>

\* the jobs in the queues of a pool, and in the pools of a ProductionLine
RECURSIVE queued_jobs(_)
queued_jobs(queues) ==
    IF queues = << >>
    THEN 0
    ELSE Len(Head(queues).jobs) + queued_jobs(Tail(queues))

line_jobs(pools) ==
    queued_jobs(pools.Medium.queues) + queued_jobs(pools.Big.queues)
        + queued_jobs(pools.Craft.queues)

\* mutant of cached: the estimate is always taken as not yet made
cached_never(estimation, reset_estimation) == << >>

\* "if reset_estimation: self._time_estimation = None": the estimate that
\* estimate_time goes on with
cached(estimation, reset_estimation) ==
    IF reset_estimation THEN << >> ELSE estimation

\* the formulas that make one of an item out of one of another, crafted or
\* refined
UnitFormulas(id, result, ingredient) ==
    { Formula(id, "CRAFT", Ingredient(result, 1), [ n \in { ingredient } |-> 1 ], None) }
    \cup { Formula(id, "REFINING", Ingredient(result, 1),
                   [ n \in { ingredient } |-> 1 ], unit) : unit \in 1..MaxUnitTime }

CacheInit ==
    /\ ChainInit
    /\ shared_line = ProductionLine(refinery_limit)
    /\ last_call = [ op |-> "__init__" ]

\* chain.estimate_time(get_items, refinery_limit=refinery_limit,
\*                     pools=shared_line or None,
\*                     reset_estimation=reset_estimation)
CachedEstimateTime ==
    /\ \E reset_estimation \in BOOLEAN, given \in BOOLEAN :
          LET time == cached(_time_estimation, reset_estimation)
              line == IF reset_estimation THEN << >> ELSE _production_line
          IN  /\ IF truthy(time)
                 THEN /\ _time_estimation' = time
                      /\ _production_line' = line
                      /\ returned' = time
                      /\ UNCHANGED shared_line
                 ELSE /\ given => line_jobs(shared_line) + Len(_stages) <= MaxJobs
                      /\ LET pools == IF given THEN shared_line
                                      ELSE ProductionLine(refinery_limit)
                             est   == chain_estimate(_stages, CraftTime,
                                                     refinery_limit, pools, 0)
                         IN  /\ _time_estimation' = Some(est.estimation)
                             /\ _production_line' = Some(est.pools)
                             /\ returned' = Some(est.estimation)
                             /\ shared_line' = IF given THEN est.pools
                                               ELSE shared_line
              /\ last_call' = [ op               |-> "estimate_time",
                                reset_estimation |-> reset_estimation,
                                pools            |-> given ]
    /\ UNCHANGED << _stages, _input, _profit, originals, refinery_limit >>

\* chain.append(ProductionStage(f)) with a formula that takes what the last
\* stage makes
CachedAppend ==
    /\ Len(_stages) < MaxTimedStages
    /\ \E f \in UnitFormulas(Len(_stages) + 1, result_item(Len(_stages) + 1),
                             link_item(Len(_stages) + 1)) :
          /\ _stages' = append(_stages, ProductionStage(<< f >>))
          /\ originals' = Append(originals, f)
    /\ _input' = << >>
    /\ _profit' = << >>
    /\ _time_estimation' = << >>
    /\ returned' = << >>
    /\ last_call' = [ op |-> "append" ]
    /\ UNCHANGED << _production_line, refinery_limit, shared_line >>

\* chain.append_front(ProductionStage(f)) with a formula that makes out of
\* the raw item what the first stage takes
CachedAppendFront ==
    /\ Len(_stages) < MaxTimedStages
    /\ \E result \in IF _stages = << >> THEN { 1 }
                     ELSE DOMAIN _stages[1].ingredients :
       \E f \in UnitFormulas(Len(_stages) + 1, result, RawItem) :
          /\ _stages' = append_front(_stages, ProductionStage(<< f >>))
          /\ originals' = << f >> \o originals
    /\ _input' = << >>
    /\ _profit' = << >>
    /\ _time_estimation' = << >>
    /\ returned' = << >>
    /\ last_call' = [ op |-> "append_front" ]
    /\ UNCHANGED << _production_line, refinery_limit, shared_line >>

\* chain.input
CachedReadInput ==
    /\ ReadInput
    /\ last_call' = [ op |-> "input" ]
    /\ UNCHANGED shared_line

\* chain.profit
CachedReadProfit ==
    /\ ReadProfit
    /\ last_call' = [ op |-> "profit" ]
    /\ UNCHANGED shared_line

CacheIdle ==
    /\ shared_line = << >>
    /\ last_call = << >>

(***************************************************************************)
(* Pools configured with any size, zero too: RefineryPool(size) and        *)
(* RefineryPool.make_pool with a limit.  pool_config tells how the pool    *)
(* was made, pool_error the exception add_job raised.                      *)
(***************************************************************************)
\* sorted(self._queues, ...)[0] of _get_next_queue finds no queue
no_queue_to_take(p) ==
    /\ ~unlimited(p)
    /\ ~(actual_pool_size(p) < p.pool_size)
    /\ p.queues = << >>

ConfigInit ==
    /\ \E limit \in 0..MaxPoolSize, via \in { "RefineryPool", "make_pool" } :
          /\ pool_config = [ via |-> via, limit |-> limit ]
          /\ pool = IF via = "RefineryPool"
                    THEN RefineryPool(limit)
                    ELSE make_pool("Medium", [ Medium |-> limit, Big |-> limit ])
    /\ job_log = << >>
    /\ pool_error = "None"

\* pool.add_job(RefineryJob(None, proc_time, 1)) on the configured pool
ConfigAddJob ==
    /\ Len(job_log) < MaxJobs
    /\ pool_error = "None"
    /\ \E proc_time \in JobTimes :
          IF no_queue_to_take(pool)
          THEN /\ pool_error' = "IndexError"
               /\ UNCHANGED << pool, job_log >>
          ELSE /\ pool' = add_job(pool, RefineryJob(None, proc_time, 1))
               /\ job_log' = Append(job_log, proc_time)
               /\ UNCHANGED pool_error
    /\ UNCHANGED pool_config

ConfigIdle ==
    /\ pool_config = << >>
    /\ pool_error = "None"

(***************************************************************************)
(* ProductionStage.estimate_time on a stage of its own, with no pools      *)
(* handed in: the jobs it puts into the pools of a new ProductionLine.     *)
(***************************************************************************)
\* the formulas a stage is made of at position p: any type, one to
\* MaxExtra + 1 ingredients, a result of one batch or more; refining and
\* cooking take one tick for a unit
StageFormulas(p) ==
    { Formula(p, type, Ingredient(result, qty),
              [ i \in { RawItem + x : x \in 0..extra } |-> 1 ],
              IF type \in { "CRAFT", "REPAIR" } THEN None ELSE qty) :
        << type, result, qty, extra >> \in
            FormulaTypes \X (1..NumLinkItems) \X BatchQuantities \X (0..MaxExtra) }

\* a stage is made of one formula or of two
StageSizes == { 1, 2 }

StageInit ==
    /\ \E n \in StageSizes :
          est_formulas \in { fs \in [ 1..n -> UNION { StageFormulas(p) : p \in 1..n } ] :
                                \A p \in 1..n : fs[p].id = p }
    /\ est_limit \in RefineryLimits
    /\ est_result = << >>

\* ProductionStage(*est_formulas).estimate_time(get_items,
\*                                              refinery_limit=est_limit)
StageEstimateTime ==
    /\ est_result = << >>
    /\ est_result' = Some(stage_estimate_time(ProductionStage(est_formulas),
                                              CraftTime,
                                              ProductionLine(est_limit)))
    /\ UNCHANGED << est_formulas, est_limit >>

StageIdle ==
    /\ est_formulas = << >>
    /\ est_limit = << >>
    /\ est_result = << >>

(***************************************************************************)
(* GalacticCoords.from_portal_code over portal_string_parser.  A code is   *)
(* the sequence of its characters; the generator is taken by the sequence  *)
(* of what it yields.                                                      *)
(***************************************************************************)
HexChars ==
    << "0", "1", "2", "3", "4", "5", "6", "7", "8", "9",
       "a", "b", "c", "d", "e", "f" >>

UpperHexChars == << "A", "B", "C", "D", "E", "F" >>

\* int(c, 16) of one character: its value, or -1 for the ValueError
int16(c) ==
    IF \E i \in 1..Len(HexChars) : HexChars[i] = c
    THEN (CHOOSE i \in 1..Len(HexChars) : HexChars[i] = c) - 1
    ELSE IF \E i \in 1..Len(UpperHexChars) : UpperHexChars[i] = c
    THEN (CHOOSE i \in 1..Len(UpperHexChars) : UpperHexChars[i] = c) + 9
    ELSE -1

\* _PortalCodeState.next
portal_next(state) ==
    CASE state = "planet"      -> "star_system"
      [] state = "star_system" -> "y"
      [] state = "y"           -> "z"
      [] state = "z"           -> "x"
      [] state = "x"           -> "DONE"

\* mutant of _PORTAL_TOKEN_LENGHT: x takes two characters
_PORTAL_TOKEN_LENGHT_short_x(state) ==
    CASE state = "planet"      -> 1
      [] state = "star_system" -> 3
      [] state = "y"           -> 2
      [] state = "z"           -> 3
      [] state = "x"           -> 2

_PORTAL_TOKEN_LENGHT(state) ==
    CASE state = "planet"      -> 1
      [] state = "star_system" -> 3
      [] state = "y"           -> 2
      [] state = "z"           -> 3
      [] state = "x"           -> 3

\* the loop of portal_string_parser from the character of index n on, and
\* what follows the loop: the sequence of the tuples it yields
RECURSIVE parser_loop(_, _, _, _, _, _)
parser_loop(portal_code, n, state, curr_val, token, last_idx) ==
    IF n >= Len(portal_code)
    THEN IF token # << >>
         THEN << << curr_val, "INCOMPLETE", last_idx >> >>
         ELSE << >>
    ELSE LET c == portal_code[n + 1]
             v == int16(c)
         IN  IF v = -1
             THEN << << curr_val, "ERROR", last_idx >> >>
             ELSE IF Len(token) + 1 = _PORTAL_TOKEN_LENGHT(state)
             THEN << << curr_val * 16 + v, state, n >> >>
                  \o (IF state = "x"
                      THEN << >>
                      ELSE parser_loop(portal_code, n + 1, portal_next(state),
                                       0, << >>, n))
             ELSE parser_loop(portal_code, n + 1, state, curr_val * 16 + v,
                              Append(token, c), n)

portal_string_parser(portal_code) ==
    parser_loop(portal_code, 0, "planet", 0, << >>, -1)

_y_portal_to_galactic(value) ==
    IF value > 128 THEN value - 129 ELSE value + 127

_xz_portal_to_galactic(value) ==
    IF value > 2048 THEN value - 2049 ELSE value + 2047

\* CoordinateSpace.from_portal, which raises nothing
from_portal(coordinate_space, field, value) ==
    IF coordinate_space = "Portal"
    THEN value
    ELSE IF field = "y"
    THEN _y_portal_to_galactic(value)
    ELSE IF field \in { "x", "z" }
    THEN _xz_portal_to_galactic(value)
    ELSE value

\* setattr(coords, name, value)
coords_set(coords, name, value) ==
    [ k \in DOMAIN coords \cup { name } |-> IF k = name THEN value ELSE coords[k] ]

\* the loop of from_portal_code over what the parser yields
RECURSIVE portal_loop(_, _, _, _, _)
portal_loop(yielded, coordinate_space, coords, state, last_idx) ==
    IF yielded = << >>
    THEN [ coords |-> coords, state |-> state, last_idx |-> last_idx ]
    ELSE LET v == Head(yielded)[1]
             s == Head(yielded)[2]
             n == Head(yielded)[3]
         IN  IF s = "ERROR"
             THEN [ coords |-> coords, state |-> "Invalid", last_idx |-> n ]
             ELSE portal_loop(Tail(yielded), coordinate_space,
                              coords_set(coords, s,
                                         from_portal(coordinate_space, s, v)),
                              IF s = "x" THEN "Complete" ELSE "Incomplete",
                              n)

\* GalacticCoords(coordinate_space=coordinate_space): no field is set
GalacticCoords ==
    [ k \in { "planet", "star_system", "y", "x", "z" } |-> -1 ]

\* GalacticCoords.from_portal_code(code, coordinate_space,
\*                                 raise_if_invalid=False)
from_portal_code(code, coordinate_space) ==
    portal_loop(portal_string_parser(code), coordinate_space, GalacticCoords,
                "Empty", -1)

\* the characters of the codes: a hexadecimal digit and one that is none
CodeChars == { "C", "w" }

PortalInit ==
    /\ \E n \in 0..MaxCodeLen : input_code \in [ 1..n -> CodeChars ]
    /\ coord_space \in { "Portal", "Galactic" }
    /\ parsed = << >>

ParsePortalCode ==
    /\ parsed = << >>
    /\ parsed' = << from_portal_code(input_code, coord_space) >>
    /\ UNCHANGED << input_code, coord_space >>

PortalIdle ==
    /\ input_code = << >>
    /\ coord_space = "Portal"
    /\ parsed = << >>

(***************************************************************************)
(* The cached input and profit of a ProductionChain that is built up at    *)
(* both ends, with formulas of any quantities.                             *)
(***************************************************************************)
\* mutant of _invalidate_caches: the cached input and profit are kept
_invalidate_caches_time_only(input, profit, time_estimation) ==
    [ _input |-> input, _profit |-> profit, _time_estimation |-> << >> ]

\* ProductionChain._invalidate_caches: the caches after the call
_invalidate_caches(input, profit, time_estimation) ==
    [ _input |-> << >>, _profit |-> << >>, _time_estimation |-> << >> ]

\* the formulas that make, out of the raw item, something the first stage takes
FrontFormulas(id, results) ==
    { Formula(id, "CRAFT", Ingredient(result, qty),
              [ n \in { RawItem } |-> raw ], None) :
        << result, qty, raw >> \in results \X (1..MaxQty) \X (1..MaxQty) }

\* chain.append(ProductionStage(f))
CoherentAppend ==
    /\ Len(_stages) < MaxCachedStages
    /\ \E f \in LinkFormulas(Len(_stages) + 1) :
          /\ _stages' = append(_stages, ProductionStage(<< f >>))
          /\ originals' = Append(originals, f)
    /\ LET caches == _invalidate_caches(_input, _profit, _time_estimation)
       IN  /\ _input' = caches._input
           /\ _profit' = caches._profit
           /\ _time_estimation' = caches._time_estimation
    /\ returned' = << >>
    /\ last_call' = [ op |-> "append" ]
    /\ UNCHANGED << _production_line, refinery_limit, shared_line >>

\* chain.append_front(ProductionStage(f))
CoherentAppendFront ==
    /\ Len(_stages) < MaxCachedStages
    /\ \E f \in FrontFormulas(Len(_stages) + 1,
                               IF _stages = << >> THEN { 1 }
                               ELSE DOMAIN _stages[1].ingredients) :
          /\ _stages' = append_front(_stages, ProductionStage(<< f >>))
          /\ originals' = << f >> \o originals
    /\ LET caches == _invalidate_caches(_input, _profit, _time_estimation)
       IN  /\ _input' = caches._input
           /\ _profit' = caches._profit
           /\ _time_estimation' = caches._time_estimation
    /\ returned' = << >>
    /\ last_call' = [ op |-> "append_front" ]
    /\ UNCHANGED << _production_line, refinery_limit, shared_line >>

(***************************************************************************)
(* SilentBomBuilder: the visitor of a BOM-building walk.  walk_graph calls *)
(* examine_node and finish_node in DFS order, so the calls nest: a         *)
(* finish_node is for the formula examined last among those not yet        *)
(* finished, and every formula is examined at most once.                   *)
(***************************************************************************)
\* Item.cls of the catalogue: the raw items are resources
item_cls(id) == IF id >= RawItem THEN "Resource" ELSE "Product"

\* the formulas of the walked graph: three for item 1, three for item 2 and
\* one that refines a raw item
BuilderFormulas ==
    { Formula(1, "CRAFT", Ingredient(1, 1), [ k \in { 2 } |-> 1 ], None),
      Formula(2, "REFINING", Ingredient(1, 1),
              [ k \in { 2, RawItem } |-> IF k = 2 THEN MaxBomQty - 1 ELSE 1 ], None),
      Formula(3, "REFINING", Ingredient(2, 1), [ k \in { RawItem } |-> 2 ], None),
      Formula(4, "REFINING", Ingredient(2, MaxBomQty - 1),
              [ k \in { RawItem + 1 } |-> 1 ], None),
      Formula(5, "CRAFT", Ingredient(2, 1), [ k \in { RawItem } |-> 1 ], None),
      Formula(6, "REFINING", Ingredient(RawItem, 1),
              [ k \in { RawItem + 1 } |-> 1 ], None),
      Formula(7, "REFINING", Ingredient(1, MaxBomQty), [ k \in { 2 } |-> 1 ], None) }

\* mutant of better: a new BOM always takes the place of the cached one
better_or_not(bom, cached_bom) == TRUE

\* "if bom < self.best_boms[result.id]"
better(bom, cached_bom) == bom_lt(bom, cached_bom)

\* the end of finish_node: best_boms after a BOM was built for result_id
update_best(boms, result_id, bom) ==
    IF result_id \in DOMAIN boms
    THEN IF better(bom, boms[result_id])
         THEN dict_set(boms, result_id, bom)
         ELSE boms
    ELSE dict_set(boms, result_id, bom)

BuilderInit ==
    /\ vis_best_boms = << >>
    /\ _bom_stack = << >>
    /\ gray_formulas = << >>
    /\ seen_formulas = { }
    /\ vis_avoid \in AvoidSets
    /\ vis_prefer_craft \in BOOLEAN
    /\ finish_call = << >>

\* the walk has not ended with an exception
BuilderRuns == IF finish_call = << >> THEN TRUE ELSE ~IsRaised(finish_call.bom)

\* SilentBomBuilder.examine_node for a start node or for a formula that makes
\* an ingredient of a formula being processed
BuilderExamine ==
    /\ BuilderRuns
    /\ \E formula \in BuilderFormulas :
          /\ formula.id \notin seen_formulas
          /\ \/ gray_formulas = << >>
             \/ \E n \in 1..Len(gray_formulas) :
                   formula.result.name \in DOMAIN gray_formulas[n].ingredients
          /\ seen_formulas' = seen_formulas \cup { formula.id }
          /\ gray_formulas' = push(gray_formulas, formula)
          /\ _bom_stack' = IF item_cls(formula.result.name) = "Resource"
                           THEN _bom_stack
                           ELSE push(_bom_stack, << >>)
    /\ UNCHANGED << vis_best_boms, vis_avoid, vis_prefer_craft, finish_call >>

\* SilentBomBuilder.finish_node
BuilderFinish ==
    /\ BuilderRuns
    /\ gray_formulas # << >>
    /\ LET formula == LIFO_pop(gray_formulas).element
           result  == formula.result.name
       IN  /\ gray_formulas' = LIFO_pop(gray_formulas).rest
           /\ IF item_cls(result) = "Resource"
              THEN /\ finish_call' = [ formula |-> formula, before |-> vis_best_boms,
                                       bom |-> << >> ]
                   /\ UNCHANGED << vis_best_boms, _bom_stack >>
              ELSE LET boms   == LIFO_pop(_bom_stack).element
                       popped == LIFO_pop(_bom_stack).rest
                       bom    == IF boms = << >>
                                 THEN make_bom(result, formula, vis_best_boms,
                                               vis_avoid, vis_prefer_craft)
                                 ELSE combine_boms(result, formula, boms,
                                                   vis_best_boms, vis_avoid,
                                                   vis_prefer_craft)
                   IN  /\ finish_call' = [ formula |-> formula,
                                           before |-> vis_best_boms, bom |-> bom ]
                       /\ IF IsRaised(bom)
                          THEN /\ _bom_stack' = popped
                               /\ UNCHANGED vis_best_boms
                          ELSE /\ _bom_stack' =
                                     IF popped # << >>
                                     THEN [ popped EXCEPT ![Len(popped)] = Append(@, bom) ]
                                     ELSE popped
                               /\ vis_best_boms' = update_best(vis_best_boms, result, bom)
    /\ UNCHANGED << seen_formulas, vis_avoid, vis_prefer_craft >>

BuilderIdle ==
    /\ vis_best_boms = << >>
    /\ _bom_stack = << >>
    /\ gray_formulas = << >>
    /\ seen_formulas = { }
    /\ vis_avoid = { }
    /\ vis_prefer_craft = FALSE
    /\ finish_call = << >>

(***************************************************************************)
(* The specifications.  Each runs one part; the other parts stay idle.     *)
(***************************************************************************)
WalkIdle ==
    /\ result_of = << >>
    /\ ingredients_of = << >>
    /\ start_from = << >>
    /\ walk_order = "DFS"
    /\ pc = "idle"
    /\ queue = << >>
    /\ colors = << >>
    /\ current_stack = << >>
    /\ detected_cycles = << >>
    /\ cycle_count = 0
    /\ inspected_nodes = 0
    /\ fired = << >>
    /\ parent = << >>
    /\ history = << >>

PoolIdle ==
    /\ pool = RefineryPool(1)
    /\ job_log = << >>

ChainIdle == ChainInit

\* one walk_graph call over one formula graph
Init == WalkInit /\ PoolIdle /\ ChainIdle /\ BomOrderIdle /\ ListOrderIdle /\ BomIdle /\ FillIdle /\ ChainCmpIdle /\ CacheIdle /\ ConfigIdle /\ StageIdle /\ PortalIdle /\ BuilderIdle

Next ==
    \/ Seed /\ UNCHANGED << poolVars, chainVars, bomOrderVars, listOrderVars, bomVars, fillVars, chainCmpVars, cacheVars, configVars, stageVars, portalVars, builderVars >>
    \/ FinishStep /\ UNCHANGED << poolVars, chainVars, bomOrderVars, listOrderVars, bomVars, fillVars, chainCmpVars, cacheVars, configVars, stageVars, portalVars, builderVars >>
    \/ VisitStep /\ UNCHANGED << poolVars, chainVars, bomOrderVars, listOrderVars, bomVars, fillVars, chainCmpVars, cacheVars, configVars, stageVars, portalVars, builderVars >>
    \/ Return /\ UNCHANGED << poolVars, chainVars, bomOrderVars, listOrderVars, bomVars, fillVars, chainCmpVars, cacheVars, configVars, stageVars, portalVars, builderVars >>

Spec == Init /\ [][Next]_vars

\* one RefineryPool fed with jobs
PoolSpecInit == PoolInit /\ WalkIdle /\ ChainIdle /\ BomOrderIdle /\ ListOrderIdle /\ BomIdle /\ FillIdle /\ ChainCmpIdle /\ CacheIdle /\ ConfigIdle /\ StageIdle /\ PortalIdle /\ BuilderIdle

PoolSpecNext ==
    \/ PoolAddJob /\ UNCHANGED << walkVars, chainVars, bomOrderVars, listOrderVars, bomVars, fillVars, chainCmpVars, cacheVars, configVars, stageVars, portalVars, builderVars >>

PoolSpec == PoolSpecInit /\ [][PoolSpecNext]_vars

\* one ProductionChain built up stage by stage and read
ChainSpecInit == ChainInit /\ WalkIdle /\ PoolIdle /\ BomOrderIdle /\ ListOrderIdle /\ BomIdle /\ FillIdle /\ ChainCmpIdle /\ CacheIdle /\ ConfigIdle /\ StageIdle /\ PortalIdle /\ BuilderIdle

ChainSpecNext ==
    \/ ChainAppend /\ UNCHANGED << walkVars, poolVars, bomOrderVars, listOrderVars, bomVars, fillVars, chainCmpVars, cacheVars, configVars, stageVars, portalVars, builderVars >>
    \/ ReadInput /\ UNCHANGED << walkVars, poolVars, bomOrderVars, listOrderVars, bomVars, fillVars, chainCmpVars, cacheVars, configVars, stageVars, portalVars, builderVars >>
    \/ ReadProfit /\ UNCHANGED << walkVars, poolVars, bomOrderVars, listOrderVars, bomVars, fillVars, chainCmpVars, cacheVars, configVars, stageVars, portalVars, builderVars >>

ChainSpec == ChainSpecInit /\ [][ChainSpecNext]_vars

\* one ProductionChain whose time is estimated
EstimateSpecInit == EstimateInit /\ WalkIdle /\ PoolIdle /\ BomOrderIdle /\ ListOrderIdle /\ BomIdle /\ FillIdle /\ ChainCmpIdle /\ CacheIdle /\ ConfigIdle /\ StageIdle /\ PortalIdle /\ BuilderIdle

EstimateSpecNext ==
    \/ EstimateTime /\ UNCHANGED << walkVars, poolVars, bomOrderVars, listOrderVars, bomVars, fillVars, chainCmpVars, cacheVars, configVars, stageVars, portalVars, builderVars >>

EstimateSpec == EstimateSpecInit /\ [][EstimateSpecNext]_vars

\* three BOMs compared with each other
BomOrderSpecInit == BomOrderInit /\ WalkIdle /\ PoolIdle /\ ChainIdle /\ ListOrderIdle /\ BomIdle /\ FillIdle /\ ChainCmpIdle /\ CacheIdle /\ ConfigIdle /\ StageIdle /\ PortalIdle /\ BuilderIdle

BomOrderSpecNext ==
    \/ BomCompare /\ UNCHANGED << walkVars, poolVars, chainVars, listOrderVars, bomVars, fillVars, chainCmpVars, cacheVars, configVars, stageVars, portalVars, builderVars >>

BomOrderSpec == BomOrderSpecInit /\ [][BomOrderSpecNext]_vars

\* ingredient lists that are compared
ListOrderSpecInit == ListOrderInit /\ BomOrderIdle /\ WalkIdle /\ PoolIdle /\ ChainIdle /\ BomIdle /\ FillIdle /\ ChainCmpIdle /\ CacheIdle /\ ConfigIdle /\ StageIdle /\ PortalIdle /\ BuilderIdle

ListOrderSpecNext ==
    \/ ListCompare /\ UNCHANGED << walkVars, poolVars, chainVars, bomOrderVars, bomVars, fillVars, chainCmpVars, cacheVars, configVars, stageVars, portalVars, builderVars >>

ListOrderSpec == ListOrderSpecInit /\ [][ListOrderSpecNext]_vars

\* BOM.__mul__ and BOM.make_bom
BomSpecInit == BomInit /\ BomOrderIdle /\ ListOrderIdle /\ WalkIdle /\ PoolIdle /\ ChainIdle /\ FillIdle /\ ChainCmpIdle /\ CacheIdle /\ ConfigIdle /\ StageIdle /\ PortalIdle /\ BuilderIdle

BomSpecNext ==
    \/ BomMul /\ UNCHANGED << walkVars, poolVars, chainVars, bomOrderVars, listOrderVars, fillVars, chainCmpVars, cacheVars, configVars, stageVars, portalVars, builderVars >>
    \/ MakeBom /\ UNCHANGED << walkVars, poolVars, chainVars, bomOrderVars, listOrderVars, fillVars, chainCmpVars, cacheVars, configVars, stageVars, portalVars, builderVars >>

BomSpec == BomSpecInit /\ [][BomSpecNext]_vars

\* filling an IngredientList
FillSpecInit == FillInit /\ BomOrderIdle /\ ListOrderIdle /\ BomIdle /\ WalkIdle /\ PoolIdle /\ ChainIdle /\ ChainCmpIdle /\ CacheIdle /\ ConfigIdle /\ StageIdle /\ PortalIdle /\ BuilderIdle

FillSpecNext ==
    \/ FillAppend /\ UNCHANGED << walkVars, poolVars, chainVars, bomOrderVars, listOrderVars, bomVars, chainCmpVars, cacheVars, configVars, stageVars, portalVars, builderVars >>
    \/ FillAppendList /\ UNCHANGED << walkVars, poolVars, chainVars, bomOrderVars, listOrderVars, bomVars, chainCmpVars, cacheVars, configVars, stageVars, portalVars, builderVars >>

FillSpec == FillSpecInit /\ [][FillSpecNext]_vars

\* ProductionChain.compare
ChainCmpSpecInit == ChainCmpInit /\ BomOrderIdle /\ ListOrderIdle /\ BomIdle /\ FillIdle /\ WalkIdle /\ PoolIdle /\ ChainIdle /\ CacheIdle /\ ConfigIdle /\ StageIdle /\ PortalIdle /\ BuilderIdle

ChainCmpSpecNext ==
    \/ ChainCompare /\ UNCHANGED << walkVars, poolVars, chainVars, bomOrderVars, listOrderVars, bomVars, fillVars, cacheVars, configVars, stageVars, portalVars, builderVars >>

ChainCmpSpec == ChainCmpSpecInit /\ [][ChainCmpSpecNext]_vars

\* the cache of ProductionChain.estimate_time
CacheSpecInit == CacheInit /\ BomOrderIdle /\ ListOrderIdle /\ BomIdle /\ FillIdle /\ ChainCmpIdle /\ WalkIdle /\ PoolIdle /\ ConfigIdle /\ StageIdle /\ PortalIdle /\ BuilderIdle

CacheSpecNext ==
    \/ CachedEstimateTime /\ UNCHANGED << walkVars, poolVars, bomOrderVars, listOrderVars, bomVars, fillVars, chainCmpVars, configVars, stageVars, portalVars, builderVars >>
    \/ CachedAppend /\ UNCHANGED << walkVars, poolVars, bomOrderVars, listOrderVars, bomVars, fillVars, chainCmpVars, configVars, stageVars, portalVars, builderVars >>
    \/ CachedAppendFront /\ UNCHANGED << walkVars, poolVars, bomOrderVars, listOrderVars, bomVars, fillVars, chainCmpVars, configVars, stageVars, portalVars, builderVars >>
    \/ CachedReadInput /\ UNCHANGED << walkVars, poolVars, bomOrderVars, listOrderVars, bomVars, fillVars, chainCmpVars, configVars, stageVars, portalVars, builderVars >>
    \/ CachedReadProfit /\ UNCHANGED << walkVars, poolVars, bomOrderVars, listOrderVars, bomVars, fillVars, chainCmpVars, configVars, stageVars, portalVars, builderVars >>

CacheSpec == CacheSpecInit /\ [][CacheSpecNext]_vars

\* pools of any configured size
ConfigSpecInit == ConfigInit /\ BomOrderIdle /\ ListOrderIdle /\ BomIdle /\ FillIdle /\ ChainCmpIdle /\ CacheIdle /\ WalkIdle /\ ChainIdle /\ StageIdle /\ PortalIdle /\ BuilderIdle

ConfigSpecNext ==
    \/ ConfigAddJob /\ UNCHANGED << walkVars, chainVars, bomOrderVars, listOrderVars, bomVars, fillVars, chainCmpVars, cacheVars, stageVars, portalVars, builderVars >>

ConfigSpec == ConfigSpecInit /\ [][ConfigSpecNext]_vars

\* ProductionStage.estimate_time on one stage
StageSpecInit == StageInit /\ BomOrderIdle /\ ListOrderIdle /\ BomIdle /\ FillIdle /\ ChainCmpIdle /\ CacheIdle /\ ConfigIdle /\ WalkIdle /\ PoolIdle /\ ChainIdle /\ PortalIdle /\ BuilderIdle

StageSpecNext ==
    \/ StageEstimateTime /\ UNCHANGED << walkVars, poolVars, chainVars, bomOrderVars, listOrderVars, bomVars, fillVars, chainCmpVars, cacheVars, configVars, portalVars, builderVars >>

StageSpec == StageSpecInit /\ [][StageSpecNext]_vars

\* GalacticCoords.from_portal_code
PortalSpecInit == PortalInit /\ BomOrderIdle /\ ListOrderIdle /\ BomIdle /\ FillIdle /\ ChainCmpIdle /\ CacheIdle /\ ConfigIdle /\ StageIdle /\ WalkIdle /\ PoolIdle /\ ChainIdle /\ BuilderIdle

PortalSpecNext ==
    \/ ParsePortalCode /\ UNCHANGED << walkVars, poolVars, chainVars, bomOrderVars, listOrderVars, bomVars, fillVars, chainCmpVars, cacheVars, configVars, stageVars, builderVars >>

PortalSpec == PortalSpecInit /\ [][PortalSpecNext]_vars

\* one chain built up at both ends while its input and profit are read
CoherenceSpecInit == CacheInit /\ BomOrderIdle /\ ListOrderIdle /\ BomIdle /\ FillIdle /\ ChainCmpIdle /\ WalkIdle /\ PoolIdle /\ ConfigIdle /\ StageIdle /\ PortalIdle /\ BuilderIdle

CoherenceSpecNext ==
    \/ CoherentAppend /\ UNCHANGED << walkVars, poolVars, bomOrderVars, listOrderVars, bomVars, fillVars, chainCmpVars, configVars, stageVars, portalVars, builderVars >>
    \/ CoherentAppendFront /\ UNCHANGED << walkVars, poolVars, bomOrderVars, listOrderVars, bomVars, fillVars, chainCmpVars, configVars, stageVars, portalVars, builderVars >>
    \/ CachedReadInput /\ UNCHANGED << walkVars, poolVars, bomOrderVars, listOrderVars, bomVars, fillVars, chainCmpVars, configVars, stageVars, portalVars, builderVars >>
    \/ CachedReadProfit /\ UNCHANGED << walkVars, poolVars, bomOrderVars, listOrderVars, bomVars, fillVars, chainCmpVars, configVars, stageVars, portalVars, builderVars >>

CoherenceSpec == CoherenceSpecInit /\ [][CoherenceSpecNext]_vars

\* a SilentBomBuilder on a BOM-building walk
BuilderSpecInit == BuilderInit /\ BomOrderIdle /\ ListOrderIdle /\ BomIdle /\ FillIdle /\ ChainCmpIdle /\ CacheIdle /\ ConfigIdle /\ StageIdle /\ PortalIdle /\ WalkIdle /\ PoolIdle /\ ChainIdle

BuilderSpecNext ==
    \/ BuilderExamine /\ UNCHANGED << walkVars, poolVars, chainVars, bomOrderVars, listOrderVars, bomVars, fillVars, chainCmpVars, cacheVars, configVars, stageVars, portalVars >>
    \/ BuilderFinish /\ UNCHANGED << walkVars, poolVars, chainVars, bomOrderVars, listOrderVars, bomVars, fillVars, chainCmpVars, cacheVars, configVars, stageVars, portalVars >>

BuilderSpec == BuilderSpecInit /\ [][BuilderSpecNext]_vars

(***************************************************************************)
(* Graph notions the walk is judged against.                               *)
(***************************************************************************)
RECURSIVE ReachableFrom(_)
ReachableFrom(S) ==
    LET more == S \cup UNION { get_adjacent(n) : n \in S }
    IN  IF more = S THEN S ELSE ReachableFrom(more)

\* the graph has a directed path (possibly empty) from a to b
HasPath(a, b) == b \in ReachableFrom({ a })

\* a is b, or a is reached from b by following the discovery edges upwards
RECURSIVE IsAncestorOrSelf(_, _)
IsAncestorOrSelf(a, b) ==
    \/ a = b
    \/ b # None /\ parent[b] # None /\ parent[b] # b /\ IsAncestorOrSelf(a, parent[b])

EdgeCallbacks == { "discover_node", "tree_edge", "back_edge", "fwd_or_cross_edge" }

IsEdgeEvent(e) == e.cb \in EdgeCallbacks

IsBackEdge(e) == e.cb = "back_edge"

\* the callback add() owes a target of the given colour
CallbackFor(colour) ==
    CASE colour = "NONE"  -> "discover_node"
      [] colour = "WHITE" -> "tree_edge"
      [] colour = "GRAY"  -> "back_edge"
      [] colour = "BLACK" -> "fwd_or_cross_edge"

IsPrefix(s, t) == Len(s) <= Len(t) /\ \A i \in 1..Len(s) : s[i] = t[i]

\* what one node lives through in one walk
FullLife ==
    << "discover_node", "WHITE", "GRAY", "examine_node", "BLACK", "finish_node" >>

\* the stack from its top down to the topmost occurrence of node, top first
FromTopDownTo(stack, node) ==
    LET at == CHOOSE i \in 1..Len(stack) :
                  /\ stack[i] = node
                  /\ \A j \in (i + 1)..Len(stack) : stack[j] # node
    IN  [ k \in 1..(Len(stack) - at + 1) |-> stack[Len(stack) + 1 - k] ]

\* the node whose formula a single-formula stage holds
StageFormula(stage) == stage.formulas[1].id

(***************************************************************************)
(* C1: while a node s is examined, every node t of get_adjacent(s) gets    *)
(* exactly one callback, chosen by the colour t has at that moment (s      *)
(* itself is already Gray): discover_node if t was never seen, tree_edge   *)
(* if it is White, back_edge iff Gray, fwd_or_cross_edge iff Black.        *)
(***************************************************************************)
C1_OneCallbackPerAdjacent ==
    (fired' # << >> /\ fired'[1].cb = "examine_node") =>
        LET s      == fired'[1].target
            moment == [ colors EXCEPT ![s] = "GRAY" ]
            edges  == SelectSeq(fired', IsEdgeEvent)
        IN  /\ Len(edges) = Cardinality(get_adjacent(s))
            /\ \A i \in 1..Len(edges) : /\ edges[i].source = s
                                        /\ edges[i].target \in get_adjacent(s)
            /\ \A t \in get_adjacent(s) :
                  \E i \in 1..Len(edges) :
                      /\ edges[i].target = t
                      /\ edges[i].cb = CallbackFor(moment[t])

\* C1: every step of the walk gives each adjacent node exactly one callback,
\* the one that belongs to the colour the node has at that moment
C1_EdgeClassification == [][C1_OneCallbackPerAdjacent]_vars

\* one examination that meets a Black, a Gray and an unseen node
C1_Witness ==
    /\ fired # << >>
    /\ fired[1].cb = "examine_node"
    /\ \A cb \in { "discover_node", "back_edge", "fwd_or_cross_edge" } :
          \E i \in 1..Len(fired) : fired[i].cb = cb

(***************************************************************************)
(* C2: in one walk every node reachable from the start nodes is            *)
(* discovered, examined (White -> Gray) and finished (Gray -> Black)       *)
(* exactly once and in that order; no colour moves backwards; a node that  *)
(* is not reachable is never coloured.                                     *)
(***************************************************************************)
C2_ColourLifeCycle ==
    LET reachable == ReachableFrom(Range(start_from))
    IN  /\ \A n \in Nodes : IsPrefix(history[n], FullLife)
        /\ \A n \in Nodes \ reachable : colors[n] = "NONE" /\ history[n] = << >>
        /\ pc = "done" =>
              \A n \in reachable : colors[n] = "BLACK" /\ history[n] = FullLife

\* a finished walk that left a node out and met a node along two edges
C2_Witness ==
    /\ pc = "done"
    /\ ReachableFrom(Range(start_from)) # Nodes
    /\ Cardinality(ReachableFrom(Range(start_from))) >= 2
    /\ \E n \in Nodes : Cardinality({ m \in Nodes : n \in get_adjacent(m) }) >= 2

(***************************************************************************)
(* C3: under DFS a back_edge(s, t) is fired only for a t that is s or an   *)
(* ancestor of s still being processed (Gray), so the graph has a path     *)
(* from t to s and the edge s -> t closes a directed cycle.                *)
(***************************************************************************)
C3_BackEdgeClosesCycle ==
    walk_order = "DFS" =>
        \A i \in 1..Len(fired) :
            IsBackEdge(fired[i]) =>
                /\ colors[fired[i].target] = "GRAY"
                /\ IsAncestorOrSelf(fired[i].target, fired[i].source)
                /\ HasPath(fired[i].target, fired[i].source)
                /\ fired[i].target \in get_adjacent(fired[i].source)

\* a back edge to a proper ancestor two levels up
C3_Witness ==
    /\ walk_order = "DFS"
    /\ \E i \in 1..Len(fired) :
          /\ IsBackEdge(fired[i])
          /\ fired[i].target # fired[i].source
          /\ parent[fired[i].source] # fired[i].target

(***************************************************************************)
(* C4: under DFS finish_node(p) fires only after finish_node has fired for *)
(* every node first discovered while p was being examined.                 *)
(***************************************************************************)
C4_ChildrenFinishFirst ==
    walk_order = "DFS" =>
        \A p, c \in Nodes :
            (parent[c] = p /\ colors[p] = "BLACK") => colors[c] = "BLACK"

\* a parent finishes after two children of its own
C4_Witness ==
    /\ walk_order = "DFS"
    /\ \E p \in Nodes :
          /\ colors[p] = "BLACK"
          /\ Cardinality({ c \in Nodes : c # p /\ parent[c] = p }) = 2
          /\ fired # << >> /\ fired[1] = Event("finish_node", None, p)

(***************************************************************************)
(* C5: under DFS every back_edge(source, target) appends exactly one chain *)
(* to detected_cycles[target.result.name]; its stages are, one to one and  *)
(* in order, the formulas of the mirrored stack from source (the top) down *)
(* to target, so each stage's formula is adjacent to the formula of the    *)
(* next stage and the last stage produces target's result.                 *)
(***************************************************************************)
C5_TraceOf(e) == FromTopDownTo(current_stack', e.target)

\* the formulas of the stages of a recorded chain, in order
C5_FormulasOf(chain) == [ i \in 1..Len(chain) |-> StageFormula(chain[i]) ]

C5_WellFormed(e) ==
    LET trace == C5_TraceOf(e)
    IN  /\ trace[1] = e.source
        /\ trace[Len(trace)] = e.target
        /\ \A i \in 1..(Len(trace) - 1) : trace[i] \in get_adjacent(trace[i + 1])

C5_OneChainPerBackEdge ==
    walk_order = "DFS" =>
        LET backs == SelectSeq(fired', IsBackEdge)
            Keyed(item) == LET ForItem(e) == result_of[e.target] = item
                           IN  SelectSeq(backs, ForItem)
        IN  /\ \A i \in 1..Len(backs) : C5_WellFormed(backs[i])
            /\ \A item \in Items :
                  LET old == detected_cycles[item]
                      new == detected_cycles'[item]
                      got == Keyed(item)
                  IN  /\ Len(new) = Len(old) + Len(got)
                      /\ SubSeq(new, 1, Len(old)) = old
                      /\ \A i \in 1..Len(got) :
                            LET chain == new[Len(old) + i]
                            IN  /\ \A k \in 1..Len(chain) :
                                      Len(chain[k].formulas) = 1
                                /\ C5_FormulasOf(chain) = C5_TraceOf(got[i])
                                /\ DOMAIN chain[Len(chain)].results = { item }
            /\ cycle_count' = cycle_count + Len(backs)

\* C5: every step of a DFS walk records exactly one chain per back_edge, with
\* the stages of the mirrored stack from the source down to the target
C5_CycleChains == [][C5_OneChainPerBackEdge]_vars

\* a recorded chain of three stages
C5_Witness ==
    /\ walk_order = "DFS"
    /\ \E item \in Items : \E i \in 1..Len(detected_cycles[item]) :
          Len(detected_cycles[item][i]) = 3

(***************************************************************************)
(* Notions the pool is judged against.                                     *)
(***************************************************************************)
Count(seq, x) == Cardinality({ i \in 1..Len(seq) : seq[i] = x })

\* the same elements, each as often, in any order
SameBag(s, t) ==
    /\ Len(s) = Len(t)
    /\ \A x \in Range(s) \cup Range(t) : Count(s, x) = Count(t, x)

QueueLengths(p) == [ i \in 1..Len(p.queues) |-> Len(p.queues[i].jobs) ]

(***************************************************************************)
(* C9: a pool of size N >= 1 that starts empty and receives M jobs of the  *)
(* same duration d ends with max_time = ceil(M / N) * d; a pool of size 2  *)
(* given five jobs of 10 seconds has queues of 3 and 2 jobs and max_time   *)
(* 30 seconds.                                                             *)
(***************************************************************************)
C9_EqualJobsMakespan ==
    /\ \A d \in JobTimes :
          (/\ pool.pool_size >= 1
           /\ \A i \in 1..Len(job_log) : job_log[i] = d)
          => pool.max_time = CeilDiv(Len(job_log), pool.pool_size) * d
    /\ (pool.pool_size = 2 /\ job_log = << 10, 10, 10, 10, 10 >>)
          => /\ SameBag(QueueLengths(pool), << 3, 2 >>)
             /\ pool.max_time = 30

\* the scenario: size 2, five jobs of 10 seconds
C9_Witness == pool.pool_size = 2 /\ job_log = << 10, 10, 10, 10, 10 >>

(***************************************************************************)
(* C10: add_job opens a new queue for the job iff the pool is unbounded or *)
(* has fewer open queues than pool_size; otherwise the job goes to a queue *)
(* whose total duration was minimal among the open queues.  So a bounded   *)
(* pool never holds more than pool_size queues and an unbounded pool holds *)
(* one queue per job.                                                      *)
(***************************************************************************)
C10_AddJobStep ==
    LET job    == RefineryJob(None, job_log'[Len(job_log')], 1)
        alone  == queue_add_job(RefineryJobQueue, job)
        opened == Len(pool'.queues) = Len(pool.queues) + 1
        room   == unlimited(pool) \/ Len(pool.queues) < pool.pool_size
    IN  /\ opened <=> room
        /\ opened => SameBag(pool'.queues, Append(pool.queues, alone))
        /\ ~opened =>
              \E i \in 1..Len(pool.queues) :
                  /\ \A j \in 1..Len(pool.queues) :
                        pool.queues[i].total_time <= pool.queues[j].total_time
                  /\ SameBag(pool'.queues,
                             [ pool.queues EXCEPT ![i] = queue_add_job(@, job) ])

C10_QueueCount ==
    /\ ~unlimited(pool) => Len(pool.queues) <= pool.pool_size
    /\ unlimited(pool) =>
          /\ Len(pool.queues) = Len(job_log)
          /\ \A i \in 1..Len(pool.queues) : Len(pool.queues[i].jobs) = 1

\* C10: a bounded pool never holds more than pool_size queues, and every
\* add_job opens a queue or appends to a queue of least total time as stated
C10_NextQueue == [](C10_QueueCount) /\ [][C10_AddJobStep]_vars

\* a full pool of two queues whose shorter queue, the second, took the third job
C10_Witness ==
    /\ pool.pool_size = 2
    /\ job_log = << 20, 10, 10 >>
    /\ SameBag(QueueLengths(pool), << 1, 2 >>)
    /\ pool.max_time = 20

(***************************************************************************)
(* Notions the chain is judged against.                                    *)
(***************************************************************************)
\* the quantity of an item in an ingredient list, 0 if it is absent
QtyOrZero(il, item) == IF item \in DOMAIN il THEN il[item] ELSE 0

\* stage k makes an item that stage k + 1 takes
Linked(k) == originals[k].result.name \in DOMAIN originals[k + 1].ingredients

\* the stage is its original formula with every quantity taken m times
IsMultiple(stage, f, m) ==
    /\ Len(stage.formulas) = 1
    /\ stage.formulas[1].result = Ingredient(f.result.name, m * f.result.qty)
    /\ stage.formulas[1].ingredients =
           [ n \in DOMAIN f.ingredients |-> m * f.ingredients[n] ]
    /\ stage.results = [ n \in { f.result.name } |-> m * f.result.qty ]
    /\ stage.ingredients = stage.formulas[1].ingredients

\* the factor by which stage k has grown
Factor(k) == _stages[k].formulas[1].result.qty \div originals[k].result.qty

(***************************************************************************)
(* C6: in a chain that append() built from single-formula stages, for      *)
(* every two consecutive stages of which the later takes the result item   *)
(* of the earlier, the earlier stage makes of that item exactly as much as *)
(* the later stage takes, and every stage is its original formula with all *)
(* quantities multiplied by one positive integer.                          *)
(***************************************************************************)
C6_LcmLinking ==
    /\ Len(_stages) = Len(originals)
    /\ \A k \in 1..Len(_stages) :
          Factor(k) >= 1 /\ IsMultiple(_stages[k], originals[k], Factor(k))
    /\ \A k \in 1..(Len(_stages) - 1) :
          Linked(k) =>
              LET item == originals[k].result.name
              IN  _stages[k].results[item] = _stages[k + 1].ingredients[item]

\* three stages, each taking the result of the one before, where the second
\* and the third append each had to multiply the stages already in the chain
C6_Witness ==
    /\ Len(_stages) = 3
    /\ Linked(1) /\ Linked(2)
    /\ Factor(2) > 1
    /\ Factor(1) > Factor(2)

(***************************************************************************)
(* C7 as the specification states it: for every item of the chain's output *)
(* or of its input, the profit holds output quantity minus input quantity, *)
(* either taken as 0 where the item is absent.                             *)
(***************************************************************************)
C7_ProfitItemwise ==
    (_profit # << >> /\ _stages # << >>) =>
        \A item \in DOMAIN output(_stages) \cup DOMAIN _input[1] :
            QtyOrZero(_profit[1], item) =
                QtyOrZero(output(_stages), item) - QtyOrZero(_input[1], item)

(***************************************************************************)
(* C7: the profit holds exactly the items of the chain's output, each with *)
(* its output quantity minus its input quantity (0 if the input does not   *)
(* hold it); an item that is only in the input has no entry in the profit. *)
(***************************************************************************)
C7_ProfitOfOutputItems ==
    (_profit # << >> /\ _stages # << >>) =>
        /\ DOMAIN _profit[1] = DOMAIN output(_stages)
        /\ \A item \in DOMAIN output(_stages) :
              _profit[1][item] =
                  output(_stages)[item] - QtyOrZero(_input[1], item)

\* the profit of a chain that takes back the item it makes and takes a raw
\* item beside
C7_Witness ==
    /\ _profit # << >>
    /\ Len(_stages) >= 2
    /\ \E item \in DOMAIN output(_stages) :
          item \in DOMAIN _input[1] /\ _profit[1][item] # output(_stages)[item]
    /\ \E item \in DOMAIN _input[1] : item \notin DOMAIN output(_stages)

(***************************************************************************)
(* C8: estimate_time of a chain returns the sum, over its stages, of the   *)
(* time each stage takes when it is estimated alone in a production line   *)
(* of its own with the same refinery limits.                               *)
(***************************************************************************)
RECURSIVE C8_IsolatedSum(_)
C8_IsolatedSum(stages) ==
    IF stages = << >>
    THEN 0
    ELSE stage_estimate_time(Head(stages), CraftTime,
                             ProductionLine(refinery_limit)).time
         + C8_IsolatedSum(Tail(stages))

\* C8: the time estimate_time returns is the sum of the makespans the stages
\* have when each is estimated alone
C8_SumOfStageMakespans ==
    returned # << >> => returned[1] = C8_IsolatedSum(_stages)

(***************************************************************************)
(* C11: among BOMs that carry the same prefer_craft flag, BOM.__lt__ is a  *)
(* strict weak order: no BOM is less than itself, a < b excludes b < a,    *)
(* a < b and b < c give a < c, and if neither of a, b is less than the     *)
(* other and neither of b, c is, then neither of a, c is.                  *)
(***************************************************************************)
C11_StrictWeakOrder ==
    lt_result # << >> =>
        LET lt(i, j)     == lt_result[i][j]
            incomp(i, j) == ~lt(i, j) /\ ~lt(j, i)
        IN  /\ \A i \in 1..3 : ~lt(i, i)
            /\ \A i, j \in 1..3 : lt(i, j) => ~lt(j, i)
            /\ \A i, j, k \in 1..3 : (lt(i, j) /\ lt(j, k)) => lt(i, k)
            /\ \A i, j, k \in 1..3 : (incomp(i, j) /\ incomp(j, k)) => incomp(i, k)

(***************************************************************************)
(* C12: under each strategy IngredientList.compare is a consistent         *)
(* three-way order: a list compares Equal to itself, a compares Less to b  *)
(* exactly when b compares More to a, and Less is transitive.              *)
(***************************************************************************)
C12_ThreeWayOrder ==
    cmp_result # << >> =>
        \A strategy \in Strategies :
            LET cmp(i, j) == cmp_result[strategy][i][j]
            IN  /\ \A i \in 1..3 : cmp(i, i) = "Equal"
                /\ \A i, j \in 1..3 : cmp(i, j) = "Less" <=> cmp(j, i) = "More"
                /\ \A i, j \in 1..3 : cmp(i, j) = "Equal" <=> cmp(j, i) = "Equal"
                /\ \A i, j, k \in 1..3 :
                      (cmp(i, j) = "Less" /\ cmp(j, k) = "Less") => cmp(i, k) = "Less"

\* three different lists in a row, the first a longer list that starts with
\* the second: it is the lesser one under LongerLess only
C12_Witness ==
    /\ cmp_result # << >>
    /\ DOMAIN cmp_lists[2] # { }
    /\ DOMAIN cmp_lists[2] # DOMAIN cmp_lists[1]
    /\ \A n \in DOMAIN cmp_lists[2] :
          n \in DOMAIN cmp_lists[1] /\ cmp_lists[1][n] = cmp_lists[2][n]
    /\ cmp_result["LongerLess"][1][2] = "Less"
    /\ cmp_result["LongerMore"][1][2] = "More"
    /\ cmp_result["LongerLess"][2][3] = "Less"
    /\ cmp_result["LongerLess"][1][3] = "Less"

\* C13: a BOM times an integer k >= 1 is a new BOM with k times the total
\* and k times the output quantity, hence the same cost per item, and the
\* multiplied BOM keeps its ingredients, output quantity and total.
C13_MulScales ==
    (bom_result # << >> /\ bom_result.op = "mul") =>
        LET b == bom_result.self
            p == bom_result.product
            k == bom_result.k
        IN  /\ ~IsRaised(p)
            /\ p.total = b.total * k
            /\ p.output_qty = b.output_qty * k
            /\ p.per_item[1] * b.per_item[2] = b.per_item[1] * p.per_item[2]
            /\ known_boms[bom_result.name] = b

C13_Witness ==
    /\ bom_result # << >>
    /\ bom_result.op = "mul"
    /\ bom_result.k >= 2
    /\ Len(bom_result.self.ingredients) = 2
    /\ bom_result.self.output_qty >= 2
    /\ bom_result.product.total > bom_result.self.total

\* C14: combine_boms on a formula and child BOMs with positive quantities
\* completes, and every rescaled child's output quantity is an exact multiple
\* of the ingredient's quantity times k_output.
C14_ExactMultiple ==
    (bom_result # << >> /\ bom_result.op = "make" /\ bom_result.combined) =>
        LET locals  == bom_result.locals[1]
            formula == bom_result.formula
        IN  /\ ~IsRaised(bom_result.bom)
            /\ ~IsRaised(locals.rescaled)
            /\ locals.k_output > 0
            /\ \A name \in DOMAIN formula.ingredients \cap
                           DOMAIN locals.rescaled.best_boms :
                  locals.rescaled.best_boms[name].output_qty
                      % (formula.ingredients[name] * locals.k_output) = 0

\* the sum of the quantities handed over for an item
RECURSIVE InsertedQty(_, _)
InsertedQty(items, name) ==
    IF items = << >>
    THEN 0
    ELSE (IF Head(items).name = name THEN Head(items).qty ELSE 0)
         + InsertedQty(Tail(items), name)

\* C15: an IngredientList filled through its constructor, append and
\* append_list holds one entry for every item handed over, with the sum of
\* the quantities handed over for that item.
C15_SumOfInserted ==
    /\ DOMAIN ingredient_list = { inserted[i].name : i \in 1..Len(inserted) }
    /\ \A name \in DOMAIN ingredient_list :
          ingredient_list[name] = InsertedQty(inserted, name)

\* the result the spec gives by an estimate that may be missing
C16_MissingIsLess(lhs, rhs, result) ==
    /\ result # "TypeError"
    /\ (lhs = << >> /\ rhs # << >>) => result = "Less"
    /\ (lhs # << >> /\ rhs = << >>) => result = "More"
    /\ (lhs = << >> /\ rhs = << >>) => result = "Equal"

\* C16: between two non-empty chains, under the Time key and under the Value
\* key, a chain without the estimate is Less than a chain with it on either
\* side, two chains without it are Equal, and the comparison never fails.
C16_MissingEstimateIsLess ==
    (/\ chain_cmp # << >>
     /\ cmp_chains[1].len > 0
     /\ cmp_chains[2].len > 0) =>
        /\ chain_cmp.compare_order = << "Time" >> =>
              C16_MissingIsLess(cmp_chains[1]._time_estimation,
                                cmp_chains[2]._time_estimation, chain_cmp.result)
        /\ chain_cmp.compare_order = << "Value" >> =>
              C16_MissingIsLess(cmp_chains[1]._value_estimation,
                                cmp_chains[2]._value_estimation, chain_cmp.result)

\* the last step was estimate_time without reset_estimation
C17_PlainCall(call) == call.op = "estimate_time" /\ ~call.reset_estimation

\* the last step was estimate_time with reset_estimation
C17_ResetCall(call) == call.op = "estimate_time" /\ call.reset_estimation

\* a call without reset_estimation on a chain that holds an estimate returns
\* it and leaves every pool as it is
C17_Hit ==
    (truthy(_time_estimation) /\ C17_PlainCall(last_call')) =>
        /\ returned' = _time_estimation
        /\ _time_estimation' = _time_estimation
        /\ _production_line' = _production_line
        /\ shared_line' = shared_line

\* C17 as stated: an estimate once made is returned by every later call
\* without reset_estimation, no job is enqueued by such a call, and only a
\* call with reset_estimation discards the estimate.
C17_DiscardedOnlyByReset ==
    [][ /\ C17_Hit
        /\ (_time_estimation # << >> /\ _time_estimation' = << >>) =>
              C17_ResetCall(last_call') ]_vars

\* C17 amended: an estimate that is not zero is returned by every call
\* without reset_estimation that finds it, and no job is enqueued by such a
\* call; the estimate is discarded by a call with reset_estimation, by
\* append and by append_front, and by nothing else.
C17_DiscardedByResetOrAppend ==
    [][ /\ C17_Hit
        /\ (_time_estimation # << >> /\ _time_estimation' # _time_estimation) =>
              \/ C17_ResetCall(last_call')
              \/ last_call'.op \in { "append", "append_front" }
        /\ last_call'.op \in { "append", "append_front" } =>
              _time_estimation' = << >> ]_vars

C17_Witness ==
    /\ last_call = [ op |-> "estimate_time", reset_estimation |-> FALSE,
                     pools |-> TRUE ]
    /\ Len(_stages) = 2
    /\ truthy(_time_estimation)
    /\ _production_line = Some(shared_line)
    /\ line_jobs(shared_line) = 2

\* C18: a pool size of 0, given to RefineryPool or as a limit to make_pool,
\* is rejected when the pool is made: there is no pool of size 0 to call
\* add_job on, add_job does not fail, and a limit of 0 does not become
\* another capacity.
C18_ZeroSizeRejected ==
    pool_config # << >> =>
        /\ pool_error = "None"
        /\ pool_config.limit = 0 => IsRaised(pool)
        /\ ~IsRaised(pool) => pool.pool_size = pool_config.limit

\* the jobs of a formula in the queues of a pool
RECURSIVE C19_JobsOf(_, _)
C19_JobsOf(f, queues) ==
    IF queues = << >>
    THEN << >>
    ELSE SelectSeq(Head(queues).jobs, LAMBDA job : job.formula = f)
         \o C19_JobsOf(f, Tail(queues))

C20_Hex ==
    { "0", "1", "2", "3", "4", "5", "6", "7", "8", "9",
      "a", "b", "c", "d", "e", "f", "A", "B", "C", "D", "E", "F" }

\* the number of hexadecimal digits a code begins with
C20_Digits(code) ==
    Cardinality({ n \in 1..Len(code) : \A m \in 1..n : code[m] \in C20_Hex })

\* C20: from_portal_code with raise_if_invalid=False gives Empty for the
\* empty code, Complete once 12 hexadecimal digits are read whatever
\* follows, Incomplete for a code that ends after 1 to 11 hexadecimal
\* digits, Invalid at the first other character among the first 12, and as
\* last_idx the index of the last character accepted, -1 if there is none.
C20_PortalCodeState ==
    parsed # << >> =>
        LET digits == C20_Digits(input_code)
            state  == parsed[1].state
        IN  /\ state = "Empty" <=> input_code = << >>
            /\ state = "Complete" <=> digits >= 12
            /\ state = "Incomplete" <=>
                  (digits \in 1..11 /\ digits = Len(input_code))
            /\ state = "Invalid" <=> (digits < 12 /\ digits < Len(input_code))
            /\ parsed[1].last_idx = (IF digits >= 12 THEN 12 ELSE digits) - 1

\* a complete code of twelve digits followed by another character, read in
\* the galactic coordinate space
C20_Witness ==
    /\ parsed # << >>
    /\ Len(input_code) = 13
    /\ input_code[13] = "w"
    /\ coord_space = "Galactic"
    /\ parsed[1].state = "Complete"
    /\ parsed[1].last_idx = 11

(***************************************************************************)
(* C21: under DFS the finish order is a true post-order: at the moment     *)
(* finish_node(p) fires, no node of get_adjacent(p) is still White.        *)
(***************************************************************************)
C21_TruePostOrder ==
    (walk_order = "DFS" /\ fired # << >> /\ fired[1].cb = "finish_node") =>
        \A t \in get_adjacent(fired[1].target) : color_of(colors, t) # "WHITE"

\* the part of the graph reachable from the start nodes has a directed cycle
OnCycle(n) == n \in ReachableFrom(get_adjacent(n))

(***************************************************************************)
(* C22: cycle detection is complete under DFS: if the part of the formula  *)
(* graph reachable from the start nodes contains a directed cycle, then    *)
(* whatever the iteration order of the adjacency sets a back_edge has      *)
(* fired by the end of the walk, so at least one chain is recorded.        *)
(***************************************************************************)
C22_CycleFound ==
    ( /\ walk_order = "DFS"
      /\ pc = "done"
      /\ \E n \in ReachableFrom(Range(start_from)) : OnCycle(n) ) =>
        /\ cycle_count >= 1
        /\ \E item \in Items : detected_cycles[item] # << >>

\* the entries of the container that are visit entries of n, and its markers
VisitEntries(n) ==
    Cardinality({ i \in 1..Len(queue) : queue[i] = _Node(n, queue[i].distance) })

FinishMarkers(n) ==
    Cardinality({ i \in 1..Len(queue) :
                     queue[i] = _NodeFinish(n, queue[i].distance) })

\* the pushes of entries of n so far: add() pushes a visit entry with every
\* discover_node and one finish marker with every examination
Pushed(n) == Count(history[n], "discover_node") + Count(history[n], "examine_node")

\* the pushes of entries of the nodes of S so far
RECURSIVE PushedOf(_)
PushedOf(S) ==
    IF S = {} THEN 0
    ELSE LET n == CHOOSE m \in S : TRUE IN Pushed(n) + PushedOf(S \ { n })

\* the turns of the main loop so far: every turn pops one pushed entry
LoopTurns == PushedOf(Nodes) - Len(queue)

\* the loop can take a turn as long as the container holds an entry: the
\* entry it pops is a visit entry or a finish marker
C23_CanTurn ==
    (pc = "loop" /\ queue # << >>) =>
        pop(walk_order, queue).element.kind \in { "node", "finish" }

C23_Bounded ==
    LET bound == 2 * Cardinality(ReachableFrom(Range(start_from)))
        turns == LoopTurns
    IN  /\ \A n \in Nodes :
              /\ Count(history[n], "discover_node") <= 1
              /\ Count(history[n], "examine_node") <= 1
              /\ VisitEntries(n) <= 1
              /\ VisitEntries(n) = 1 => colors[n] = "WHITE"
              /\ FinishMarkers(n) <= 1
              /\ FinishMarkers(n) = 1 => colors[n] = "GRAY"
        /\ turns <= bound
        /\ pc = "done" => queue = << >> /\ turns = bound
        /\ C23_CanTurn

\* every turn of the loop uses up one pushed entry, and the loop is left only
\* with the container drained
C23_Turn ==
    LET before == LoopTurns
        after  == LoopTurns'
    IN  /\ (pc = "loop" /\ pc' = "loop") => after = before + 1
        /\ (pc = "loop" /\ pc' = "done") => queue = << >> /\ after = before
        /\ pc = "seed" => pc' = "loop" /\ after = 0
        /\ pc # "done"

(***************************************************************************)
(* C23: walk_graph terminates on every finite graph, with cycles,          *)
(* self-loops and duplicate start nodes, in DFS and in BFS order: each     *)
(* node is pushed as a visit entry at most once and gets at most one       *)
(* finish marker, every turn of the main loop pops one entry, and so the   *)
(* loop runs at most twice the number of reachable nodes.                  *)
(***************************************************************************)
C23_Terminates == []C23_Bounded /\ [][C23_Turn]_vars

\* a finished BFS walk from a start node given twice, over a graph with a
\* self-loop and a cycle of two nodes
C23_Witness ==
    /\ pc = "done"
    /\ walk_order = "BFS"
    /\ \E i, j \in 1..Len(start_from) : i # j /\ start_from[i] = start_from[j]
    /\ \E n \in Nodes : n \in get_adjacent(n)
    /\ \E n, m \in Nodes : n # m /\ m \in get_adjacent(n) /\ n \in get_adjacent(m)
    /\ LoopTurns = 4

\* the nodes that are Gray
GrayNodes == { n \in Nodes : colors[n] = "GRAY" }

\* no node is twice in the sequence
NoRepeats(s) == \A i, j \in 1..Len(s) : s[i] = s[j] => i = j

C24_StackStep ==
    walk_order = "DFS" =>
        /\ Range(current_stack') = GrayNodes'
        /\ NoRepeats(current_stack')
        /\ IF fired' # << >> /\ fired'[1].cb = "examine_node"
           THEN \* the examined node goes on top, and the back edges handled
                \* during its examination leave the stack as it is
                current_stack' = Append(current_stack, fired'[1].target)
           ELSE IF fired' # << >> /\ fired'[1].cb = "finish_node"
           THEN \* finish_node(n) pops n itself
                current_stack = Append(current_stack', fired'[1].target)
           ELSE current_stack' = current_stack
        /\ pc' = "done" => current_stack' = << >>

(***************************************************************************)
(* C24: under DFS CycleDetector's mirrored stack always equals the         *)
(* sequence of the currently Gray nodes in the order they were examined:   *)
(* an examination puts its node on top, every finish_node(n) pops n        *)
(* itself, handling a back_edge (backtrack) leaves contents and order      *)
(* unchanged, and the stack is empty when the walk ends.                   *)
(***************************************************************************)
C24_MirroredStack == [][C24_StackStep]_vars

\* an examination that handled a back edge to a node two below the top of a
\* stack of three
C24_Witness ==
    /\ walk_order = "DFS"
    /\ Len(current_stack) = 3
    /\ \E i \in 1..Len(fired) :
          /\ IsBackEdge(fired[i])
          /\ fired[i].source = current_stack[3]
          /\ fired[i].target = current_stack[1]

\* the sum of the durations of the jobs of a queue
RECURSIVE SumOfTimes(_)
SumOfTimes(jobs) ==
    IF jobs = << >> THEN 0 ELSE Head(jobs).time + SumOfTimes(Tail(jobs))

\* the largest number of a set of naturals, 0 for the empty set
Largest(S) == IF S = {} THEN 0 ELSE CHOOSE m \in S : \A k \in S : k <= m

(***************************************************************************)
(* C25: after any sequence of add_job calls on a RefineryPool every        *)
(* queue's total_time is the sum of the durations of its jobs, max_time    *)
(* is the largest queue total_time and max_len the largest queue length.   *)
(***************************************************************************)
C25_PoolTotals ==
    LET n == Len(pool.queues)
    IN  /\ \A i \in 1..n :
              pool.queues[i].total_time = SumOfTimes(pool.queues[i].jobs)
        /\ pool.max_time = Largest({ pool.queues[i].total_time : i \in 1..n })
        /\ pool.max_len = Largest({ Len(pool.queues[i].jobs) : i \in 1..n })

\* five jobs of two durations in two queues: the queue of the largest total
\* time is not the longest one
C25_Witness ==
    /\ Len(job_log) = 5
    /\ Len(pool.queues) = 2
    /\ \E i, j \in 1..2 :
          /\ pool.queues[i].total_time = pool.max_time
          /\ Len(pool.queues[i].jobs) < pool.max_len
          /\ Len(pool.queues[j].jobs) = pool.max_len
          /\ pool.queues[j].total_time < pool.max_time

\* what chain.input and chain.profit give when nothing is cached
FreshInput(stages) ==
    IF stages = << >> THEN IngredientList ELSE compute_input(stages)

FreshProfit(stages) == il_sub(output(stages), FreshInput(stages))

\* what is cached is what a recomputation gives, and so is what a read returned
C26_Coherent ==
    /\ _input # << >> => _input[1] = FreshInput(_stages)
    /\ _profit # << >> => _profit[1] = FreshProfit(_stages)
    /\ last_call.op = "input" => returned = Some(FreshInput(_stages))
    /\ last_call.op = "profit" => returned = Some(FreshProfit(_stages))

\* a read leaves the stages as they are
C26_ReadStep ==
    last_call'.op \in { "input", "profit" } => _stages' = _stages

(***************************************************************************)
(* C26: ProductionChain.input and ProductionChain.profit are cached        *)
(* coherently: after any sequence of append and append_front interleaved   *)
(* with reads of input and profit, each read returns what a fresh          *)
(* recomputation from the current stages gives, and a read never changes   *)
(* the ingredient or result lists of the stages.                           *)
(***************************************************************************)
C26_CachesCoherent == []C26_Coherent /\ [][C26_ReadStep]_vars

\* input is read from a chain whose profit is cached, after append_front put a
\* second stage before the first and multiplied the first
C26_Witness ==
    /\ last_call = [ op |-> "input" ]
    /\ Len(_stages) = 2
    /\ originals[1].id = 2
    /\ _stages[2].formulas[1] # originals[2]
    /\ _profit # << >>
    /\ returned = _input
    /\ RawItem \in DOMAIN returned[1]

(***************************************************************************)
(* C27: throughout a BOM-building walk SilentBomBuilder.finish_node        *)
(* replaces best_boms[item_id] only with the newly built BOM and only when *)
(* that compares strictly less than the cached one; otherwise the cached   *)
(* entry is left untouched, and an entry once present is never removed.    *)
(***************************************************************************)
C27_ReplacedOnlyByBetter ==
    finish_call # << >> =>
        /\ \A id \in DOMAIN finish_call.before :
              /\ id \in DOMAIN vis_best_boms
              /\ vis_best_boms[id] # finish_call.before[id] =>
                    /\ id = finish_call.formula.result.name
                    /\ finish_call.bom # << >>
                    /\ ~IsRaised(finish_call.bom)
                    /\ vis_best_boms[id] = finish_call.bom
                    /\ bom_lt(finish_call.bom, finish_call.before[id])
        /\ \A id \in DOMAIN vis_best_boms \ DOMAIN finish_call.before :
              /\ id = finish_call.formula.result.name
              /\ vis_best_boms[id] = finish_call.bom

\* a finish_node that built a BOM out of the BOM of a child and replaced the
\* cached BOM of its item by it
C27_Witness ==
    /\ finish_call # << >>
    /\ LET id == finish_call.formula.result.name
       IN  /\ id \in DOMAIN finish_call.before
           /\ vis_best_boms[id] # finish_call.before[id]
           /\ vis_best_boms[id].formula_tree.dependencies # << >>

(***************************************************************************)
(* C28: for every formula with positive quantities and every collection of *)
(* child BOMs with positive output_qty, combine_boms returns a BOM whose   *)
(* output_qty is a positive integer multiple of formula.result.qty:        *)
(* k_output = output_qty / formula.result.qty is an integer >= 1.          *)
(***************************************************************************)
C28_OutputMultiple ==
    (bom_result # << >> /\ bom_result.op = "make" /\ bom_result.combined) =>
        /\ ~IsRaised(bom_result.bom)
        /\ bom_result.bom.output_qty % bom_result.formula.result.qty = 0
        /\ bom_result.bom.output_qty \div bom_result.formula.result.qty >= 1
        /\ bom_result.locals[1].k_output * bom_result.formula.result.qty
               = bom_result.bom.output_qty

(***************************************************************************)
(* C29: the BOM returned by combine_boms accounts for every ingredient of  *)
(* the formula: an ingredient for which no child or cached BOM was chosen  *)
(* (a raw material) appears in the new BOM with quantity at least          *)
(* ingredient.qty * k_output, and an ingredient with a chosen BOM is       *)
(* represented by that BOM's scaled components.                            *)
(***************************************************************************)
C29_AllIngredientsCounted ==
    (bom_result # << >> /\ bom_result.op = "make" /\ bom_result.combined
        /\ ~IsRaised(bom_result.bom)) =>
        LET locals  == bom_result.locals[1]
            formula == bom_result.formula
            chosen  == locals.rescaled.best_boms
            bom     == bom_result.bom
        IN  \A name \in DOMAIN formula.ingredients :
               IF name \in DOMAIN chosen
               THEN \A key \in DOMAIN chosen[name].components \ DOMAIN chosen :
                       bom_getitem(bom, key) >= bom_getitem(chosen[name], key)
               ELSE bom_getitem(bom, name) >= formula.ingredients[name] * locals.k_output

\* the distance of a discovered node: its hops from a start node along the
\* edges it and its ancestors were discovered by
RECURSIVE Depth(_)
Depth(n) == IF parent[n] = None THEN 0 ELSE Depth(parent[n]) + 1

\* the nodes that are reachable from n along at least one edge
Descendants(n) == ReachableFrom(get_adjacent(n))

(***************************************************************************)
(* C30: under BFS the finish_node calls occur in non-decreasing order of   *)
(* node distance: the distance every entry of the container carries is the *)
(* node's distance, a node that finishes is at least as far as every node  *)
(* that finished before it, and every finish still pending is at least as  *)
(* far as every node that has finished.  (A node may finish before its     *)
(* descendants are examined.)                                              *)
(***************************************************************************)
C30_FinishByDistance ==
    walk_order = "BFS" =>
        /\ \A i \in 1..Len(queue) : queue[i].distance = Depth(queue[i].item)
        /\ (fired # << >> /\ fired[1].cb = "finish_node") =>
              \A a \in Nodes :
                 colors[a] = "BLACK" => Depth(a) <= Depth(fired[1].target)
        /\ \A i \in 1..Len(queue) : \A a \in Nodes :
              (queue[i].kind = "finish" /\ colors[a] = "BLACK") =>
                  Depth(a) <= queue[i].distance

\* a node has just finished under BFS while one of its descendants has not
\* been examined, and the finish that is pending is of a farther node
C30_Witness ==
    /\ walk_order = "BFS"
    /\ fired # << >>
    /\ fired[1].cb = "finish_node"
    /\ \E c \in Descendants(fired[1].target) : colors[c] = "WHITE"
    /\ \E i \in 1..Len(queue) :
          /\ queue[i].kind = "finish"
          /\ queue[i].distance > Depth(fired[1].target)

=============================================================================
